---- MODULE Spec2Model ----
(***************************************************************************)
(* A model of Donphan's query layer: the CachedTable read-through cache    *)
(* (donphan/_cache.py), the WHERE-clause builder (donphan/_selectable.py)  *)
(* and the record-targeted DML of Insertable (donphan/_insertable.py).     *)
(*                                                                         *)
(* The database is the external collaborator: a table is a set of rows,    *)
(* a row is a record over the declared columns, NULL is None.              *)
(***************************************************************************)
EXTENDS Integers, Sequences, FiniteSets, TLC

\* ------------------------------------------------------------------ bounds
MaxKey == 2        \* values of the primary-key column a: 1..MaxKey
MaxB == 1          \* non-null values of column b: 1..MaxB
MaxCacheSize == 2  \* max_cache_size of a bounded CachedTable: 1..MaxCacheSize
MaxLRUKey == 3     \* primary-key values used against a bounded cache
MaxClauses == 2    \* keyword arguments of a filter: 0..MaxClauses
MaxFold == 3       \* keyword arguments of a filter whose grouping is checked: 1..MaxFold
MaxList == 2       \* elements of a list passed to the in operator: 1..MaxList
MaxInsert == 2     \* records given to one insert_many: 0..MaxInsert
MaxColumns == 2    \* columns of a declaration or of a target list: 0..MaxColumns
MaxRows == 2       \* rows of a table that is migrated: 0..MaxRows
MaxFields == 2     \* annotations of a class that is scanned: 0..MaxFields
MaxPool == 1       \* connections of the pool: 1..MaxPool

\* Python's None (also SQL NULL in a row).
None == 0

Keys == 1..MaxKey
BVals == {None} \cup (1..MaxB)

AllTasks == {"t1", "t2"}
\* "A" and "B" are CachedTable subclasses, "U", "V", "W" and "N" are plain (uncached)
\* Tables.
Classes == {"A", "B", "U", "V", "W", "N"}
CachedClasses == {"A", "B"}
Free == "free"

_columns_dict == {"a", "b"}

\* column.sql_type.sql_type: the columns are INTEGER, but for b of W, which is TEXT.
sql_type(c, column) == IF c = "W" /\ column = "b" THEN "TEXT" ELSE "INTEGER"

\* A list passed as one value: List(S) stands for a list whose elements are S (its
\* length is the size of S); it is no integer of a column and is not None.
List(S) == 0 - (1 + (IF 1 \in S THEN 1 ELSE 0) + (IF 2 \in S THEN 2 ELSE 0)
                  + (IF 3 \in S THEN 4 ELSE 0))

IsList(v) == v < 0

Members(v) == CHOOSE S \in SUBSET (1..3) : List(S) = v

VARIABLES
    max_size,   \* [class -> None | n]: cls._cache is a dict (None) or LRUDict(n)
    table,      \* [class -> set of rows]: the rows of the class's table in the database
    cache,      \* [class -> sequence of entries]: cls._cache in insertion order
    _base_pool, \* "None" | "pool": the default connection pool, as set_pool left it
    lock,       \* [class -> Free | task]: cls._lock
    pc,         \* [task -> "idle" | "wait" | "db"]
    call,       \* [task -> the call the task is in]
    ret,        \* [task -> what the task's last completed call returned or raised]
    declared,   \* [schema class -> its declaration: _name and the declared columns]
    _columns,   \* [schema class -> cls._columns_dict.values(), in insertion order]
    live,       \* [table name -> the table in the database: its columns and rows]
    ddl,        \* the last schema operation: its arguments, statements and outcome
    CUSTOM_TYPES, \* the names of the custom types in consts.CUSTOM_TYPES
    pg_type,    \* the names of the custom types that exist in the database
    codecs,     \* the names of the custom types whose codec the pool's connection has
    _holders    \* [connection of the pool -> Free | the task that acquired it]

\* What the class declarations and the program's start-up fixed.
conf == <<max_size, _base_pool>>

\* What the schema operations (create, drop, migrate, add_column, ...) work on.
schema == <<declared, _columns, live, ddl>>

\* What the custom types are kept in, and the connections of the pool.
custom == <<CUSTOM_TYPES, pg_type, codecs, _holders>>

vars == <<max_size, _base_pool, table, cache, lock, pc, call, ret,
          declared, _columns, live, ddl, CUSTOM_TYPES, pg_type, codecs, _holders>>

\* ------------------------------------------------------------------ helpers
Range(s) == {s[i] : i \in DOMAIN s}

NoKwargs == [x \in {} |-> None]

\* A keyword filter or assignment whose order matters is the sequence of its items
\* <<name, value>>; the name is the sequence of its lexical pieces, as in
\* <<"or_", "b", "__lt">> for or_b__lt. query and args are the statement and the
\* arguments handed to the connection.
\* The keyword-only options of insert and insert_many, and the records of insert_many.
NoOptions == [ignore_on_conflict |-> FALSE, update_on_conflict |-> <<>>,
              returning |-> <<>>, records |-> <<>>]

NoCall == [op |-> "none", cls |-> "", kwargs |-> NoKwargs, values |-> NoKwargs,
           column |-> "", on_conflict |-> "", connection |-> "", filter |-> <<>>,
           record |-> NoKwargs, assign |-> <<>>, options |-> NoOptions,
           query |-> <<>>, args |-> <<>>]

\* What a call gave its caller: rows is the returned row or rows (<<>> for none), value
\* the returned column value, queries the statements the call sent to the database, src
\* where the result came from, locked whether the class lock was held as the call ran.
NoRet == [op |-> "none", cls |-> "", kwargs |-> NoKwargs, filter |-> <<>>,
          record |-> NoKwargs, assign |-> <<>>, options |-> NoOptions,
          status |-> "none", err |-> "", detail |-> <<>>, sql |-> <<>>,
          rows |-> <<>>, value |-> None, queries |-> 0, src |-> "", locked |-> FALSE]

\* All orders in which the database may return the rows of S.
Orders(S) == {s \in [1..Cardinality(S) -> S] : \A i, j \in DOMAIN s : i # j => s[i] # s[j]}

\* ------------------------------------------------------------------ schema classes
\* S and T are Table classes whose columns are declared, created, altered and migrated.
SchemaClasses == {"S", "T"}
TableNames == {"s", "t"}

\* The column names a declaration, a target list or a live table draws from.
ColumnNames == <<"a", "b", "c">>

\* A Column: table is the class it is attached to (column.table), "MISSING" when the
\* attribute is not set. The columns are INTEGER columns, but for those create makes
\* for the live columns it finds, whose type is MISSING.
Column(name, primary_key, unique, tbl) ==
    [name |-> name, primary_key |-> primary_key, unique |-> unique, table |-> tbl,
     _sql_type |-> "INTEGER"]

\* A table that is not in the database.
Absent == [exists |-> FALSE, columns |-> <<>>, rows |-> <<>>]

NoDone == [op |-> "none", cls |-> "", target |-> "", columns |-> <<>>, flags |-> {},
           err |-> "", sent |-> <<>>, before |-> Absent, tracked |-> <<>>,
           generated |-> <<>>]

\* The names of the columns of a list, in its order.
Names(columns) == [i \in DOMAIN columns |-> columns[i].name]

IsPrimaryKey(column) == column.primary_key

IsUnique(column) == column.unique

\* Every table of the keyword operations has the columns a and b. In A, B and U a is
\* the primary key and b is nullable; in V the primary key is (a, b); N has no primary
\* key. A schema class has the columns its declaration flags, appended as
\* _setup_column meets them and never changed afterwards. cls._primary_keys, in
\* declaration order:
_primary_keys(c) ==
    IF c \in SchemaClasses THEN Names(SelectSeq(declared[c].columns, IsPrimaryKey))
    ELSE IF c = "V" THEN <<"a", "b">> ELSE IF c = "N" THEN <<>> ELSE <<"a">>

\* cls._name
_name(c) == declared[c]._name

\* No custom type is created or registered, and no connection is out of the pool.
NoCustomTypes ==
    /\ CUSTOM_TYPES = {}
    /\ pg_type = {}
    /\ codecs = {}
    /\ _holders = [h \in 1..MaxPool |-> Free]

\* No schema class is declared and the database has no table of theirs.
NoSchema ==
    /\ declared = [c \in SchemaClasses |-> [_name |-> "", columns |-> <<>>]]
    /\ _columns = [c \in SchemaClasses |-> <<>>]
    /\ live = [n \in TableNames |-> Absent]
    /\ ddl = NoDone
    /\ NoCustomTypes

\* ------------------------------------------------------------------ object identity
\* A row handed to a caller is [rec |-> row, shared |-> BOOLEAN]: shared says that it is
\* the very object the cache holds under its primary key (a reply row that was stored),
\* not a copy. A cache entry is [key |-> tuple, rec |-> row].
deepcopy(entry) == [rec |-> entry.rec, shared |-> FALSE]

\* ------------------------------------------------------------------ the cache
\* Insertable._get_primary_keys raises KeyError when the mapping lacks a key column.
HasPrimaryKeys(c, record) ==
    \A i \in DOMAIN _primary_keys(c) : _primary_keys(c)[i] \in DOMAIN record

_get_primary_key_values(c, record) ==
    [i \in DOMAIN _primary_keys(c) |-> record[_primary_keys(c)[i]]]

KeyIndex(d, key) ==
    IF \E i \in DOMAIN d : d[i].key = key THEN CHOOSE i \in DOMAIN d : d[i].key = key ELSE 0

\* dict.__setitem__: a new key goes last, an existing key keeps its place.
DictSet(d, key, obj) ==
    LET e == [key |-> key, rec |-> obj.rec]
        i == KeyIndex(d, key)
    IN  IF i = 0 THEN Append(d, e) ELSE [d EXCEPT ![i] = e]

\* LRUDict.__setitem__: store, then drop the oldest entries beyond max_size.
LRUDictSet(d, n, key, obj) ==
    LET d2 == DictSet(d, key, obj)
    IN  IF Len(d2) > n THEN SubSeq(d2, Len(d2) - n + 1, Len(d2)) ELSE d2

\* A CachedTable whose max_cache_size is ignored: the cache is always a dict.
_store_cached_Unbounded(n, d, key, obj) == DictSet(d, key, obj)

\* __init_subclass__ picks the mapping type; _store_cached assigns into it.
_store_cached(n, d, key, obj) ==
    IF n = None THEN DictSet(d, key, obj) ELSE LRUDictSet(d, n, key, obj)

_delete_cached(d, key) == SelectSeq(d, LAMBDA e : e.key # key)

\* A loop that stores the first record of the result only.
StoreAll_First(c, n, d, objs) ==
    IF objs = <<>> THEN d
    ELSE _store_cached(n, d, _get_primary_key_values(c, Head(objs).rec), Head(objs))

\* for record in result: cls._store_cached(*cls._get_primary_key_values(record), record=record)
RECURSIVE StoreAll(_, _, _, _)
StoreAll(c, n, d, objs) ==
    IF objs = <<>> THEN d
    ELSE StoreAll(c, n, _store_cached(n, d, _get_primary_key_values(c, Head(objs).rec), Head(objs)),
                  Tail(objs))

\* for record in result: cls._delete_cached(*cls._get_primary_key_values(record))
RECURSIVE DeleteAll(_, _, _)
DeleteAll(c, d, objs) ==
    IF objs = <<>> THEN d
    ELSE DeleteAll(c, _delete_cached(d, _get_primary_key_values(c, Head(objs).rec)), Tail(objs))

\* ------------------------------------------------------------------ the database
\* The uncached operations CachedTable delegates to with super(): one statement,
\* executed by the database, and its reply.
Matches(row, kwargs) == \A n \in DOMAIN kwargs : row[n] = kwargs[n]

Select(T, kwargs) == {r \in T : Matches(r, kwargs)}

\* INSERT ... [ON CONFLICT DO NOTHING | ON CONFLICT (pk) DO UPDATE SET col = EXCLUDED.col]
\* RETURNING *: primary-key columns are NOT NULL and unique together.
DbInsert(c, T, values, on_conflict) ==
    LET row == [n \in _columns_dict |-> IF n \in DOMAIN values THEN values[n] ELSE None]
        key == _get_primary_key_values(c, row)
        old == {r \in T : _get_primary_key_values(c, r) = key}
    IN  IF \E i \in DOMAIN key : key[i] = None
        THEN [table |-> T, rows |-> {}, err |-> "NotNullViolationError"]
        ELSE IF old = {} THEN [table |-> T \cup {row}, rows |-> {row}, err |-> ""]
        ELSE IF on_conflict = "ignore" THEN [table |-> T, rows |-> {}, err |-> ""]
        ELSE IF on_conflict = "update"
             THEN [table |-> (T \ old) \cup {row}, rows |-> {row}, err |-> ""]
        ELSE [table |-> T, rows |-> {}, err |-> "UniqueViolationError"]

\* UPDATE ... SET <values> WHERE <hit> RETURNING *
DbUpdate(c, T, hit, values) ==
    LET New(r) == [n \in DOMAIN r |-> IF n \in DOMAIN values THEN values[n] ELSE r[n]]
        new == {New(r) : r \in hit}
        T2 == (T \ hit) \cup new
        keys == {_get_primary_key_values(c, r) : r \in T2}
    IN  IF \E k \in keys : \E i \in DOMAIN k : k[i] = None
        THEN [table |-> T, rows |-> {}, err |-> "NotNullViolationError"]
        ELSE IF Cardinality(keys) < Cardinality(T)
        THEN [table |-> T, rows |-> {}, err |-> "UniqueViolationError"]
        ELSE [table |-> T2, rows |-> new, err |-> ""]

\* DELETE FROM ... WHERE <hit> RETURNING *
DbDelete(T, hit) == [table |-> T \ hit, rows |-> hit, err |-> ""]

\* ------------------------------------------------------------------ calls
\* CachedTable with fetch_where left undecorated.
LockedOps_NoFetchWhere == {"fetch_row_where", "fetch_value_where",
                           "insert", "update_where", "delete_where"}

\* The operations of CachedTable that are decorated with with_lock.
LockedOps == {"fetch_where", "fetch_row_where", "fetch_value_where",
              "insert", "update_where", "delete_where"}

\* __init_subclass__ gives every CachedTable subclass a lock of its own.
LockOf(c) == c

\* with_lock wraps the call in `async with cls._lock`; a plain Table has no lock.
NeedsLock(cl) == cl.cls \in CachedClasses /\ cl.op \in LockedOps

Ok(cl, rows, value, queries, src) ==
    [NoRet EXCEPT !.op = cl.op, !.cls = cl.cls, !.kwargs = cl.kwargs,
                  !.filter = cl.filter, !.record = cl.record, !.assign = cl.assign,
                  !.options = cl.options,
                  !.status = "ok",
                  !.rows = rows, !.value = value, !.queries = queries, !.src = src]

Raise(cl, err, queries) ==
    [NoRet EXCEPT !.op = cl.op, !.cls = cl.cls, !.kwargs = cl.kwargs,
                  !.filter = cl.filter, !.record = cl.record, !.assign = cl.assign,
                  !.options = cl.options,
                  !.status = "err",
                  !.err = err, !.queries = queries]

CacheKeys(d) == {d[i].key : i \in DOMAIN d}

\* A stored or removed entry is no longer the object another task was handed.
Detach(r, c, keys) ==
    IF r.cls # c THEN r
    ELSE [r EXCEPT !.rows = [i \in DOMAIN r.rows |->
            IF _get_primary_key_values(c, r.rows[i].rec) \in keys
            THEN [r.rows[i] EXCEPT !.shared = FALSE] ELSE r.rows[i]]]

Return(t, r) ==
    /\ ret' = [ret EXCEPT ![t] = r]
    /\ pc' = [pc EXCEPT ![t] = "idle"]
    /\ call' = [call EXCEPT ![t] = NoCall]

\* The statement is handed to the connection: the task is suspended until the reply.
Await(t, cl) ==
    /\ pc' = [pc EXCEPT ![t] = "db"]
    /\ call' = [call EXCEPT ![t] = cl]
    /\ ret' = [ret EXCEPT ![t] = NoRet]
    /\ lock' = IF NeedsLock(cl) THEN [lock EXCEPT ![LockOf(cl.cls)] = t] ELSE lock
    /\ UNCHANGED <<conf, schema, custom, table, cache>>

\* get_cached returning the cached record itself.
get_cached_NoCopy(c, kwargs) ==
    LET i == KeyIndex(cache[c], _get_primary_key_values(c, kwargs))
    IN  IF i = 0 THEN <<>> ELSE <<[rec |-> cache[c][i].rec, shared |-> TRUE]>>

\* CachedTable.get_cached: none (<<>>) when the key is absent, else a copy of the entry.
get_cached(c, kwargs) ==
    LET i == KeyIndex(cache[c], _get_primary_key_values(c, kwargs))
    IN  IF i = 0 THEN <<>> ELSE <<deepcopy(cache[c][i])>>

\* The call runs from the lock's acquisition up to its first await (or its return).
Begin(t, cl) ==
    IF cl.cls \in CachedClasses /\ cl.op \in {"fetch_row_where", "fetch_value_where"}
    THEN IF ~HasPrimaryKeys(cl.cls, cl.kwargs)
         THEN Return(t, Raise(cl, "KeyError", 0)) /\ UNCHANGED <<conf, schema, custom, table, cache, lock>>
         ELSE LET cached_result == get_cached(cl.cls, cl.kwargs)
              IN  IF cached_result # <<>>
                  THEN /\ Return(t, IF cl.op = "fetch_row_where"
                                    THEN Ok(cl, cached_result, None, 0, "cache")
                                    ELSE Ok(cl, <<>>, cached_result[1].rec[cl.column], 0, "cache"))
                       /\ UNCHANGED <<conf, schema, custom, table, cache, lock>>
                  ELSE Await(t, cl)
    ELSE Await(t, cl)

Call(t, cl) ==
    /\ pc[t] = "idle"
    /\ IF NeedsLock(cl) /\ lock[LockOf(cl.cls)] # Free
       THEN /\ pc' = [pc EXCEPT ![t] = "wait"]
            /\ call' = [call EXCEPT ![t] = cl]
            /\ ret' = [ret EXCEPT ![t] = NoRet]
            /\ UNCHANGED <<conf, schema, custom, table, cache, lock>>
       ELSE Begin(t, cl)

Acquire(t) ==
    /\ pc[t] = "wait"
    /\ lock[LockOf(call[t].cls)] = Free
    /\ Begin(t, call[t])

\* The reply rows as the caller gets them: the stored ones are the cache's own objects.
Handed(c, rows, d2, stored) ==
    [i \in DOMAIN rows |->
        [rec |-> rows[i],
         shared |-> stored /\ _get_primary_key_values(c, rows[i]) \in CacheKeys(d2)]]

Objs(rows) == [i \in DOMAIN rows |-> [rec |-> rows[i], shared |-> TRUE]]

\* The keys whose cache entry the call stored, purged or evicted.
Touched(c, d, d2, rows) ==
    {_get_primary_key_values(c, rows[i]) : i \in DOMAIN rows} \cup (CacheKeys(d) \ CacheKeys(d2))

\* The call's end: the result is returned and `async with` releases the lock.
Finish(t, cl, T2, d2, touched, r) ==
    /\ table' = [table EXCEPT ![cl.cls] = T2]
    /\ cache' = [cache EXCEPT ![cl.cls] = d2]
    /\ ret' = [u \in AllTasks |-> IF u = t THEN r ELSE Detach(ret[u], cl.cls, touched)]
    /\ pc' = [pc EXCEPT ![t] = "idle"]
    /\ call' = [call EXCEPT ![t] = NoCall]
    /\ lock' = IF NeedsLock(cl) THEN [lock EXCEPT ![LockOf(cl.cls)] = Free] ELSE lock
    /\ UNCHANGED <<conf, schema, custom>>

\* result = await super().<op>(...), then the rows are stored: the reply is any order
\* the database may return them in.
Stored(t, cl, T2, rowset) ==
    \E rows \in Orders(rowset) :
        LET d == cache[cl.cls]
            d2 == StoreAll(cl.cls, max_size[cl.cls], d, Objs(rows))
        IN  Finish(t, cl, T2, d2, Touched(cl.cls, d, d2, rows),
                   Ok(cl, Handed(cl.cls, rows, d2, TRUE), None, 1, "db"))

DbReply(t) ==
    /\ pc[t] = "db"
    /\ LET cl == call[t]
           c == cl.cls
           T == table[c]
           d == cache[c]
           cached == c \in CachedClasses
           Plain(T2, r) == Finish(t, cl, T2, d, {}, r)
       IN  CASE cl.op = "fetch_where" ->
                  IF cached THEN Stored(t, cl, T, Select(T, cl.kwargs))
                  ELSE \E rows \in Orders(Select(T, cl.kwargs)) :
                          Plain(T, Ok(cl, Handed(c, rows, d, FALSE), None, 1, "db"))
             [] cl.op \in {"fetch_row_where", "fetch_value_where"} ->
                  IF Select(T, cl.kwargs) = {} THEN Plain(T, Ok(cl, <<>>, None, 1, "db"))
                  ELSE \E row \in Select(T, cl.kwargs) :
                      LET d2 == IF cached THEN StoreAll(c, max_size[c], d, Objs(<<row>>)) ELSE d
                      IN  Finish(t, cl, T, d2, IF cached THEN Touched(c, d, d2, <<row>>) ELSE {},
                                 IF cl.op = "fetch_row_where"
                                 THEN Ok(cl, Handed(c, <<row>>, d2, cached), None, 1, "db")
                                 ELSE Ok(cl, <<>>, row[cl.column], 1, "db"))
             [] cl.op = "insert" ->
                  LET res == DbInsert(c, T, cl.values, cl.on_conflict)
                  IN  IF res.err # "" THEN Plain(T, Raise(cl, res.err, 1))
                      ELSE IF ~cached THEN Plain(res.table, Ok(cl, <<>>, None, 1, "db"))
                      ELSE IF res.rows = {} THEN Plain(res.table, Raise(cl, "TypeError", 1))
                      ELSE Stored(t, cl, res.table, res.rows)
             [] cl.op = "update_where" ->
                  LET res == DbUpdate(c, T, Select(T, cl.kwargs), cl.values)
                  IN  IF res.err # "" THEN Plain(T, Raise(cl, res.err, 1))
                      ELSE IF ~cached THEN Plain(res.table, Ok(cl, <<>>, None, 1, "db"))
                      ELSE Stored(t, cl, res.table, res.rows)
             [] cl.op = "delete_where" ->
                  LET res == DbDelete(T, Select(T, cl.kwargs))
                  IN  IF ~cached THEN Plain(res.table, Ok(cl, <<>>, None, 1, "db"))
                      ELSE \E rows \in Orders(res.rows) :
                          Finish(t, cl, res.table, DeleteAll(c, d, Objs(rows)),
                                 Touched(c, d, <<>>, rows),
                                 Ok(cl, Handed(c, rows, d, FALSE), None, 1, "db"))

\* The synchronous, lock-free operations.
Sync(t, r, c) ==
    /\ pc[t] = "idle"
    /\ ret' = [ret EXCEPT ![t] = [r EXCEPT !.locked = lock[LockOf(c)] # Free]]
    /\ UNCHANGED <<conf, schema, custom, table, cache, lock, pc, call>>

GetCached(t, c, kwargs) ==
    LET cl == [NoCall EXCEPT !.op = "get_cached", !.cls = c, !.kwargs = kwargs]
    IN  IF ~HasPrimaryKeys(c, kwargs) THEN Sync(t, Raise(cl, "KeyError", 0), c)
        ELSE Sync(t, Ok(cl, get_cached(c, kwargs), None, 0, "cache"), c)

clear_cache(t, c) ==
    /\ pc[t] = "idle"
    /\ cache' = [cache EXCEPT ![c] = <<>>]
    /\ ret' = [u \in AllTasks |->
                 IF u = t
                 THEN [Ok([NoCall EXCEPT !.op = "clear_cache", !.cls = c], <<>>, None, 0, "")
                          EXCEPT !.locked = lock[LockOf(c)] # Free]
                 ELSE Detach(ret[u], c, CacheKeys(cache[c]))]
    /\ UNCHANGED <<conf, schema, custom, table, lock, pc, call>>

\* insert_many left to Insertable.insert_many: the rows are inserted behind the cache.
insert_many_Inherited(t, c, connection, values) ==
    /\ pc[t] = "idle"
    /\ table' = [table EXCEPT ![c] = @ \cup {[a |-> v[1], b |-> v[2]] : v \in values}]
    /\ ret' = [ret EXCEPT ![t] = Ok([NoCall EXCEPT !.op = "insert_many", !.cls = c],
                                     <<>>, None, 1, "db")]
    /\ UNCHANGED <<conf, schema, custom, cache, lock, pc, call>>

\* CachedTable.insert_many: raises whatever it is given; it is not decorated with
\* with_lock nor with optional_pool.
insert_many(t, c, connection, values) ==
    /\ pc[t] = "idle"
    /\ Sync(t, Raise([NoCall EXCEPT !.op = "insert_many", !.cls = c], "NotImplementedError", 0), c)

\* The caller assigns b of a row object it was handed; when that object is the cache's
\* own, the cache entry changes with it.
Mutate(t, i, v) ==
    /\ pc[t] = "idle"
    /\ i \in DOMAIN ret[t].rows
    /\ ret[t].rows[i].rec.b # v
    /\ ret' = [ret EXCEPT ![t].rows[i].rec.b = v]
    /\ LET o == ret[t].rows[i]
           c == ret[t].cls
           k == KeyIndex(cache[c], _get_primary_key_values(c, o.rec))
       IN  cache' = IF o.shared THEN [cache EXCEPT ![c][k].rec.b = v] ELSE cache
    /\ UNCHANGED <<conf, schema, custom, table, lock, pc, call>>

\* ------------------------------------------------------------------ query generation
\* consts.OPERATORS, in the order the dict is iterated, and the symbol of each.
OPERATORS == <<"eq", "lt", "le", "ne", "ge", "gt", "in", "like", "ilike">>

OperatorSymbol ==
    [eq |-> "=", lt |-> "<", le |-> "<=", ne |-> "<>", ge |-> ">=", gt |-> ">",
     in |-> "_IN", like |-> "LIKE", ilike |-> "ILIKE"]

NULL_OPERATORS == [eq |-> "_NULL_EQ", ne |-> "_NULL_NE"]

\* f"${i}"
Placeholder(i) == "$" \o ToString(i)

\* f"any(${i}::{column.sql_type.sql_type}[])": both columns are INTEGER columns.
\* A builder that leaves the cast out of the in operator's placeholder.
AnyPlaceholderOf_NoCast(i, sql) == "any(" \o Placeholder(i) \o ")"

AnyPlaceholderOf(i, sql) == "any(" \o Placeholder(i) \o "::" \o sql \o "[])"

\* The in operator's placeholder on an INTEGER column.
AnyPlaceholder(i) == AnyPlaceholderOf(i, "INTEGER")

NameError(detail) == [err |-> "NameError", detail |-> detail, sql |-> <<>>]

\* for key in OPERATORS: if name.endswith(f"__{key}"): name, operator = name.rsplit("__", 1)
\* The loop runs on after a match, with the shortened name.
RECURSIVE StripOperators(_, _, _, _)
StripOperators(keys, name, operator, value) ==
    IF keys = <<>> THEN [err |-> "", name |-> name, operator |-> operator]
    ELSE LET key == Head(keys)
         IN  IF name # <<>> /\ name[Len(name)] = "__" \o key
             THEN IF value = None /\ key \notin DOMAIN NULL_OPERATORS
                  THEN [err |-> "NameError", name |-> <<"Unknown null operator", key>>,
                        operator |-> key]
                  ELSE StripOperators(Tail(keys), SubSeq(name, 1, Len(name) - 1),
                                      IF value = None THEN NULL_OPERATORS[key]
                                      ELSE OperatorSymbol[key],
                                      value)
             ELSE StripOperators(Tail(keys), name, operator, value)

\* The body of the loop over values.items(): builder is the list built so far, i the
\* next placeholder number.
RECURSIVE WhereClauses(_, _, _, _, _)
WhereClauses(c, values, builder, i, first) ==
    IF values = <<>> THEN [err |-> "", detail |-> <<>>, sql |-> builder]
    ELSE LET name == Head(values)[1]
             value == Head(values)[2]
             is_or == name # <<>> /\ Head(name) = "or_"
             st == StripOperators(OPERATORS, IF is_or THEN Tail(name) ELSE name,
                                  IF value = None THEN NULL_OPERATORS["eq"]
                                  ELSE OperatorSymbol["eq"],
                                  value)
             column == st.name[1]
             glue == IF first THEN <<>> ELSE IF is_or THEN <<"OR">> ELSE <<"AND">>
             close == IF first THEN <<>> ELSE <<")">>
         IN  IF is_or /\ first
             THEN NameError(<<"Query cannot accept OR as first clause.">>)
             ELSE IF st.err # "" THEN NameError(st.name)
             ELSE IF ~(Len(st.name) = 1 /\ st.name[1] \in _columns_dict)
             THEN NameError(<<"Unknown column">> \o st.name \o <<"in selectable", c>>)
             ELSE IF st.operator = "_IN"
             THEN WhereClauses(c, Tail(values),
                     builder \o glue \o <<column, "=", AnyPlaceholderOf(i, sql_type(c, column))>> \o close,
                     i + 1, FALSE)
             ELSE IF st.operator = "_NULL_EQ"
             THEN WhereClauses(c, Tail(values),
                     builder \o glue \o <<column, "IS NULL">> \o close, i, FALSE)
             ELSE IF st.operator = "_NULL_NE"
             THEN WhereClauses(c, Tail(values),
                     builder \o glue \o <<column, "IS NOT NULL">> \o close, i, FALSE)
             ELSE WhereClauses(c, Tail(values),
                     builder \o glue \o <<column, st.operator, Placeholder(i)>> \o close,
                     i + 1, FALSE)

\* A builder that opens no parentheses.
_build_where_clause_NoOpen(c, values) == WhereClauses(c, values, <<>>, 1, TRUE)

\* Selectable._build_where_clause: the statement text is the sequence of its tokens
\* ("(" * (len(values) - 1) is that many "(" tokens).
_build_where_clause(c, values) ==
    WhereClauses(c, values, [k \in 1..(Len(values) - 1) |-> "("], 1, TRUE)

\* Selectable._build_query_fetch with limit = None and order_by = None.
_build_query_fetch(c, where) ==
    <<"SELECT * FROM", c>> \o (IF where # <<>> THEN <<"WHERE">> \o where ELSE <<>>)

\* Insertable._build_query_delete
_build_query_delete(c, where) ==
    <<"DELETE FROM", c>> \o (IF where # <<>> THEN <<"WHERE">> \o where ELSE <<>>)

\* _build_query_update numbering the SET placeholders from $1 whatever the offset.
_build_query_update_NoOffset(c, where, offset, columns) ==
    LET Set(k) == <<columns[k], "=", Placeholder(k), ",">>
        list == [k \in 1..(4 * Len(columns)) |-> Set((k + 3) \div 4)[((k - 1) % 4) + 1]]
        builder == <<"UPDATE", c, "SET">> \o list
    IN  SubSeq(builder, 1, Len(builder) - 1) \o <<"WHERE">> \o where

\* for i, column in enumerate(columns, offset): column, f"= ${i}", ","
RECURSIVE SetList(_, _)
SetList(columns, i) ==
    IF columns = <<>> THEN <<>>
    ELSE <<Head(columns), "=", Placeholder(i), ",">> \o SetList(Tail(columns), i + 1)

\* Insertable._build_query_update: builder.pop(-1) drops the last element, then WHERE
\* and the clause are appended.
_build_query_update(c, where, offset, columns) ==
    LET builder == <<"UPDATE", c, "SET">> \o SetList(columns, offset)
    IN  SubSeq(builder, 1, Len(builder) - 1) \o <<"WHERE">> \o where

\* for x in xs: builder.append(x); builder.append(","), then builder.pop(-1): with no
\* xs the pop takes the token before the list.
Commas(xs) == [k \in 1..(2 * Len(xs)) |-> IF k % 2 = 1 THEN xs[(k + 1) \div 2] ELSE ","]

ListInto(builder, xs) ==
    LET b == builder \o Commas(xs) IN SubSeq(b, 1, Len(b) - 1)

\* An insert builder that lets ignore_on_conflict win over update_on_conflict.
_build_query_insert_IgnoreWins(c, columns, ignore_on_conflict, update_on_conflict, returning) ==
    [err |-> "", detail |-> <<>>,
     sql |-> Append(Append(ListInto(Append(ListInto(<<"INSERT INTO", c, "(">>, columns),
                                           ") VALUES ("),
                                    [i \in DOMAIN columns |-> Placeholder(i)]), ")"),
                    "ON CONFLICT DO NOTHING")]

\* Insertable._build_query_insert; columns, update_on_conflict and returning are lists
\* of column names.
_build_query_insert(c, columns, ignore_on_conflict, update_on_conflict, returning) ==
    LET values == Append(ListInto(Append(ListInto(<<"INSERT INTO", c, "(">>, columns),
                                         ") VALUES ("),
                                  [i \in DOMAIN columns |-> Placeholder(i)]), ")")
        conflict ==
            IF ignore_on_conflict THEN Append(values, "ON CONFLICT DO NOTHING")
            ELSE IF update_on_conflict # <<>>
            THEN ListInto(Append(ListInto(Append(values, "ON CONFLICT ("), _primary_keys(c)),
                                 ") DO UPDATE SET"),
                          [k \in DOMAIN update_on_conflict |->
                              update_on_conflict[k] \o " = EXCLUDED." \o update_on_conflict[k]])
            ELSE values
    IN  IF ignore_on_conflict /\ update_on_conflict # <<>>
        THEN [err |-> "ValueError", detail |-> <<>>, sql |-> <<>>]
        ELSE [err |-> "", detail |-> <<>>,
              sql |-> IF returning # <<>> THEN ListInto(Append(conflict, "RETURNING"), returning)
                      ELSE conflict]

\* Every keyword value passed on, None included.
NotNone_All(values) == [k \in DOMAIN values |-> values[k][2]]

\* filter(lambda v: v is not None, values.values())
NotNone(values) ==
    LET vs == [k \in DOMAIN values |-> values[k][2]]
    IN  SelectSeq(vs, LAMBDA v : v # None)

\* ------------------------------------------------------------------ statements
\* The database's reading of a statement: its parameters, in order of appearance.
ParamOf(tok, n) ==
    LET Forms(i) == {Placeholder(i), AnyPlaceholderOf(i, "INTEGER"), AnyPlaceholderOf(i, "TEXT")}
    IN  IF \E i \in 1..n : tok \in Forms(i) THEN CHOOSE i \in 1..n : tok \in Forms(i) ELSE 0

Params(query) ==
    SelectSeq([k \in DOMAIN query |-> ParamOf(query[k], Len(query))], LAMBDA i : i # 0)

\* SQL's three-valued logic: "true", "false", "null"; "error" is a statement the
\* database rejects.
Truth(p) == IF p THEN "true" ELSE "false"

Compare(op, x, y) ==
    IF x = None \/ y = None THEN "null"
    ELSE CASE op = "=" -> Truth(x = y)
           [] op = "<>" -> Truth(x # y)
           [] op = "<" -> Truth(x < y)
           [] op = "<=" -> Truth(x <= y)
           [] op = ">=" -> Truth(x >= y)
           [] op = ">" -> Truth(x > y)

And3(p, q) ==
    IF "false" \in {p, q} THEN "false" ELSE IF "null" \in {p, q} THEN "null" ELSE "true"

Or3(p, q) ==
    IF "true" \in {p, q} THEN "true" ELSE IF "null" \in {p, q} THEN "null" ELSE "false"

\* A condition is read as SQL reads it: parentheses first, AND before OR. The scan
\* keeps one frame per open parenthesis: or is the value of the alternatives closed so
\* far, and the value of the conjunction being read; operand says that a comparison or
\* "(" must come next. col = any($i::T[]) holds when the column's value is an element
\* of the list bound to $i. LIKE and ILIKE are not defined on INTEGER columns, any()
\* needs a list and a comparison with $i a value that is no list: the database
\* rejects the others, as it rejects a text that is not a condition.
RECURSIVE Scan(_, _, _, _, _)
Scan(toks, stack, operand, row, args) ==
    IF toks = <<>>
    THEN IF Len(stack) = 1 /\ ~operand THEN Or3(stack[1].or, stack[1].and) ELSE "error"
    ELSE LET tok == Head(toks)
             top == stack[Len(stack)]
             n == IF operand /\ tok # "("
                  THEN IF Len(toks) >= 2 /\ toks[2] \in {"IS NULL", "IS NOT NULL"} THEN 2 ELSE 3
                  ELSE 1
             i == IF Len(toks) >= 3 THEN ParamOf(toks[3], Len(args)) ELSE 0
             ok == IF operand
                   THEN \/ tok = "("
                        \/ /\ tok \in _columns_dict
                           /\ \/ n = 2
                              \/ /\ Len(toks) >= 3
                                 /\ toks[2] \in {"=", "<>", "<", "<=", ">=", ">"}
                                 /\ i # 0
                                 /\ IF toks[3] = Placeholder(i) THEN ~IsList(args[i])
                                    ELSE toks[2] = "=" /\ IsList(args[i])
                   ELSE tok \in {"AND", "OR"} \/ (tok = ")" /\ Len(stack) >= 2)
             value == IF n = 3
                      THEN IF toks[3] = Placeholder(i) THEN Compare(toks[2], row[tok], args[i])
                           ELSE IF row[tok] = None THEN "null"
                           ELSE Truth(row[tok] \in Members(args[i]))
                      ELSE IF toks[2] = "IS NULL" THEN Truth(row[tok] = None)
                      ELSE Truth(row[tok] # None)
             outer == SubSeq(stack, 1, Len(stack) - 1)
             next == IF operand
                     THEN IF tok = "(" THEN Append(stack, [or |-> "false", and |-> "true"])
                          ELSE [stack EXCEPT ![Len(stack)].and = And3(@, value)]
                     ELSE IF tok = "OR"
                          THEN [stack EXCEPT ![Len(stack)] =
                                  [or |-> Or3(top.or, top.and), and |-> "true"]]
                     ELSE IF tok = ")"
                          THEN [outer EXCEPT ![Len(outer)].and = And3(@, Or3(top.or, top.and))]
                     ELSE stack
         IN  IF ~ok THEN "error"
             ELSE Scan(SubSeq(toks, n + 1, Len(toks)), next,
                       IF operand THEN tok = "(" ELSE tok \in {"AND", "OR"}, row, args)

\* The value of the condition after WHERE on a row; a statement without WHERE takes
\* every row.
Where(query, row, args) ==
    IF \A k \in DOMAIN query : query[k] # "WHERE" THEN "true"
    ELSE LET w == CHOOSE k \in DOMAIN query : query[k] = "WHERE"
         IN  Scan(SubSeq(query, w + 1, Len(query)), <<[or |-> "false", and |-> "true"]>>,
                  TRUE, row, args)

\* The assignments of UPDATE name SET col = $i , ... WHERE: <<>> when the text between
\* SET and WHERE is not such a list.
SetClause(query, args) ==
    IF Len(query) < 3 \/ \A k \in DOMAIN query : query[k] # "WHERE" THEN <<>>
    ELSE LET w == CHOOSE k \in DOMAIN query : query[k] = "WHERE"
             set == SubSeq(query, 4, w - 1)
             Item(j) == <<set[4 * j - 3], args[ParamOf(set[4 * j - 1], Len(args))]>>
         IN  IF query[3] # "SET" \/ Len(set) % 4 # 3 THEN <<>>
             ELSE IF \E k \in DOMAIN set :
                        \/ k % 4 = 1 /\ set[k] \notin _columns_dict
                        \/ k % 4 = 2 /\ set[k] # "="
                        \/ k % 4 = 3 /\ (ParamOf(set[k], Len(args)) = 0 \/ set[k] # Placeholder(ParamOf(set[k], Len(args))))
                        \/ k % 4 = 0 /\ set[k] # ","
             THEN <<>>
             ELSE [j \in 1..((Len(set) + 1) \div 4) |-> Item(j)]

\* connection.fetch / fetchrow / execute: the statement's effect on the table and the
\* rows it returns. The arguments passed must be the parameters $1..$n of the text.
\* The database's reading of a comma-separated list: its items, or <<"error">>.
Uncomma(toks) ==
    IF Len(toks) % 2 = 1 /\ \A k \in DOMAIN toks : (k % 2 = 0) <=> (toks[k] = ",")
    THEN [j \in 1..((Len(toks) + 1) \div 2) |-> toks[2 * j - 1]]
    ELSE <<"error">>

\* INSERT INTO name ( cols ) VALUES ( $i, ... ) [ON CONFLICT DO NOTHING | ON CONFLICT
\* ( target ) DO UPDATE SET col = EXCLUDED.col, ...] [RETURNING cols]: a column left out
\* is NULL, the primary key is NOT NULL and unique, and target must be the primary key.
\* rows is what RETURNING gives back.
ExecuteInsert(c, T, query, args) ==
    LET At(tok) == IF \E k \in DOMAIN query : query[k] = tok
                   THEN CHOOSE k \in DOMAIN query : query[k] = tok ELSE 0
        v == At(") VALUES (")
        close == CHOOSE k \in (v + 1)..(Len(query) + 1) :
                    k = Len(query) + 1 \/ query[k] = ")"
        columns == IF v > 4 THEN Uncomma(SubSeq(query, 4, v - 1)) ELSE <<"error">>
        params == IF close > v + 1 THEN Uncomma(SubSeq(query, v + 1, close - 1))
                  ELSE <<"error">>
        r == At("RETURNING")
        tail == SubSeq(query, close + 1, IF r = 0 THEN Len(query) ELSE r - 1)
        d == At(") DO UPDATE SET")
        target == IF d > close + 2 THEN Uncomma(SubSeq(query, close + 2, d - 1)) ELSE <<"error">>
        sets == IF d # 0 /\ Len(tail) > d - close
                THEN Uncomma(SubSeq(tail, d - close + 1, Len(tail))) ELSE <<"error">>
        Set(col) == col \o " = EXCLUDED." \o col
        returning == IF r = 0 THEN <<>>
                     ELSE IF r < Len(query) THEN Uncomma(SubSeq(query, r + 1, Len(query)))
                     ELSE <<"error">>
        mode == IF tail = <<>> THEN ""
                ELSE IF tail = <<"ON CONFLICT DO NOTHING">> THEN "ignore"
                ELSE IF /\ tail[1] = "ON CONFLICT (" /\ d # 0
                        /\ Range(target) \subseteq _columns_dict
                        /\ \A k \in DOMAIN sets : \E col \in _columns_dict : sets[k] = Set(col)
                THEN "update"
                ELSE "error"
        wellformed ==
            /\ Len(query) >= 3 /\ query[3] = "(" /\ v # 0 /\ close <= Len(query)
            /\ Range(columns) \subseteq _columns_dict
            /\ Len(params) = Len(columns)
            /\ \A k \in DOMAIN params : params[k] = Placeholder(ParamOf(params[k], Len(args)))
            /\ mode # "error"
            /\ Range(returning) \subseteq _columns_dict \cup {"*"}
        new == [n \in _columns_dict |->
                  IF \E k \in DOMAIN columns : columns[k] = n
                  THEN args[ParamOf(params[CHOOSE k \in DOMAIN columns : columns[k] = n],
                                    Len(args))]
                  ELSE None]
        key == _get_primary_key_values(c, new)
        old == IF key = <<>> THEN {}
               ELSE {row \in T : _get_primary_key_values(c, row) = key}
        Merged(row) == [n \in _columns_dict |->
                          IF \E k \in DOMAIN sets : sets[k] = Set(n) THEN new[n] ELSE row[n]]
        Reply(T2, rows, err) ==
            [table |-> T2, rows |-> IF returning = <<>> THEN {} ELSE rows, err |-> err]
    IN  IF ~wellformed THEN Reply(T, {}, "PostgresSyntaxError")
        ELSE IF Cardinality(Range(columns)) # Len(columns) THEN Reply(T, {}, "DuplicateColumnError")
        ELSE IF \E i \in DOMAIN args : IsList(args[i]) THEN Reply(T, {}, "DataError")
        ELSE IF \E i \in DOMAIN key : key[i] = None THEN Reply(T, {}, "NotNullViolationError")
        ELSE IF old = {} THEN Reply(T \cup {new}, {new}, "")
        ELSE IF mode = "ignore" THEN Reply(T, {}, "")
        ELSE IF mode = "update"
        THEN IF Range(target) # Range(_primary_keys(c))
             THEN Reply(T, {}, "InvalidColumnReferenceError")
             ELSE Reply((T \ old) \cup {Merged(row) : row \in old},
                        {Merged(row) : row \in old}, "")
        ELSE Reply(T, {}, "UniqueViolationError")

Execute(c, T, query, args) ==
    LET hit == {r \in T : Where(query, r, args) = "true"}
        set == SetClause(query, args)
        values == [n \in {set[j][1] : j \in DOMAIN set} |->
                     (CHOOSE it \in Range(set) : it[1] = n)[2]]
    IN  IF Range(Params(query)) # 1..Len(args)
        THEN [table |-> T, rows |-> {}, err |-> "InterfaceError"]
        ELSE IF Where(query, [n \in _columns_dict |-> None], args) = "error"
        THEN [table |-> T, rows |-> {}, err |-> "PostgresSyntaxError"]
        ELSE CASE query[1] = "SELECT * FROM" -> [table |-> T, rows |-> hit, err |-> ""]
               [] query[1] = "INSERT INTO" -> ExecuteInsert(c, T, query, args)
               [] query[1] = "DELETE FROM" -> DbDelete(T, hit)
               [] query[1] = "UPDATE" ->
                    IF set = <<>> THEN [table |-> T, rows |-> {}, err |-> "PostgresSyntaxError"]
                    ELSE DbUpdate(c, T, hit, values)

\* connection.executemany(query, values): the statement once per record, all or none.
RECURSIVE ExecuteMany(_, _, _, _)
ExecuteMany(c, T, query, values) ==
    IF values = <<>> THEN [table |-> T, rows |-> {}, err |-> ""]
    ELSE LET res == Execute(c, T, query, Head(values))
         IN  IF res.err # "" THEN res ELSE ExecuteMany(c, res.table, query, Tail(values))

\* ------------------------------------------------------------------ keyword operations
\* optional_pool: the connection given is used; without one a connection is acquired
\* from the class's pool, and without a pool the call raises RuntimeError.
optional_pool(t, cl, func) ==
    IF cl.connection = "None" /\ _base_pool = "None"
    THEN Return(t, Raise(cl, "RuntimeError", 0)) /\ UNCHANGED <<conf, schema, custom, table, cache, lock>>
    ELSE func

\* The builder raised: nothing was handed to the connection.
Fail(t, cl, e) ==
    /\ Return(t, [Raise(cl, e.err, 0) EXCEPT !.detail = e.detail])
    /\ UNCHANGED <<conf, schema, custom, table, cache, lock>>

\* connection.fetch / fetchrow / execute(query, *args): the task is suspended until
\* the reply.
Send(t, cl, query, args) ==
    /\ pc' = [pc EXCEPT ![t] = "sql"]
    /\ call' = [call EXCEPT ![t] = [cl EXCEPT !.query = query, !.args = args]]
    /\ ret' = [ret EXCEPT ![t] = NoRet]
    /\ UNCHANGED <<conf, schema, custom, table, cache, lock>>

\* Selectable.fetch(connection, **values)
fetch(t, c, connection, values) ==
    LET cl == [NoCall EXCEPT !.op = "fetch", !.cls = c, !.connection = connection,
                             !.filter = values]
        where == _build_where_clause(c, values)
    IN  /\ pc[t] = "idle"
        /\ optional_pool(t, cl,
            IF where.err # "" THEN Fail(t, cl, where)
            ELSE Send(t, cl, _build_query_fetch(c, where.sql), NotNone(values)))

\* Selectable.fetch_row(connection, **values)
fetch_row(t, c, connection, values) ==
    LET cl == [NoCall EXCEPT !.op = "fetch_row", !.cls = c, !.connection = connection,
                             !.filter = values]
        where == _build_where_clause(c, values)
    IN  /\ pc[t] = "idle"
        /\ optional_pool(t, cl,
            IF where.err # "" THEN Fail(t, cl, where)
            ELSE Send(t, cl, _build_query_fetch(c, where.sql), NotNone(values)))

\* Insertable.delete(connection, **values)
delete(t, c, connection, values) ==
    LET cl == [NoCall EXCEPT !.op = "delete", !.cls = c, !.connection = connection,
                             !.filter = values]
        where == _build_where_clause(c, values)
    IN  /\ pc[t] = "idle"
        /\ optional_pool(t, cl,
            IF where.err # "" THEN Fail(t, cl, where)
            ELSE Send(t, cl, _build_query_delete(c, where.sql), NotNone(values)))

\* values.values()
Items(values) == [k \in DOMAIN values |-> values[k][2]]

\* Insertable.insert(connection, ignore_on_conflict=, update_on_conflict=, returning=,
\* **values): _get_columns raises KeyError for a name that is not a column.
_insert(t, c, connection, ignore_on_conflict, update_on_conflict, returning, values) ==
    LET cl == [NoCall EXCEPT !.op = "insert", !.cls = c, !.connection = connection,
                             !.assign = values,
                             !.options = [NoOptions EXCEPT
                                 !.ignore_on_conflict = ignore_on_conflict,
                                 !.update_on_conflict = update_on_conflict,
                                 !.returning = returning]]
        columns == [k \in DOMAIN values |-> values[k][1]]
        query == _build_query_insert(c, columns, ignore_on_conflict, update_on_conflict,
                                     returning)
    IN  /\ pc[t] = "idle"
        /\ optional_pool(t, cl,
            IF \E k \in DOMAIN columns : columns[k] \notin _columns_dict
            THEN Return(t, Raise(cl, "KeyError", 0)) /\ UNCHANGED <<conf, schema, custom, table, cache, lock>>
            ELSE IF query.err # "" THEN Fail(t, cl, query)
            ELSE Send(t, cl, query.sql, Items(values)))

\* Insertable.insert_many(connection, None, *values, ignore_on_conflict=,
\* update_on_conflict=): the columns are those of the first record.
_insert_many(t, c, connection, values, ignore_on_conflict, update_on_conflict) ==
    LET cl == [NoCall EXCEPT !.op = "insert_many", !.cls = c, !.connection = connection,
                             !.options = [NoOptions EXCEPT
                                 !.ignore_on_conflict = ignore_on_conflict,
                                 !.update_on_conflict = update_on_conflict,
                                 !.records = values]]
        columns == [k \in DOMAIN values[1] |-> values[1][k][1]]
        query == _build_query_insert(c, columns, ignore_on_conflict, update_on_conflict, <<>>)
        Error(e) == Return(t, Raise(cl, e, 0)) /\ UNCHANGED <<conf, schema, custom, table, cache, lock>>
    IN  /\ pc[t] = "idle"
        /\ optional_pool(t, cl,
            IF values = <<>> THEN Error("IndexError")
            ELSE IF \E k \in DOMAIN columns : columns[k] \notin _columns_dict
            THEN Error("KeyError")
            ELSE IF query.err # "" THEN Fail(t, cl, query)
            ELSE Send(t, cl, query.sql, [k \in DOMAIN values |-> Items(values[k])]))

\* Insertable._get_primary_keys: the items of the primary key, in cls._primary_keys order.
_get_primary_keys(c, record) ==
    [i \in DOMAIN _primary_keys(c) |-> <<<<_primary_keys(c)[i]>>, record[_primary_keys(c)[i]]>>]

\* Insertable.update_record(connection, record, **values), through update_where:
\* _get_columns raises KeyError for a name that is not a column.
update_record(t, c, connection, record, values) ==
    LET cl == [NoCall EXCEPT !.op = "update_record", !.cls = c, !.connection = connection,
                             !.record = record, !.assign = values]
        primary_keys == _get_primary_keys(c, record)
        where == _build_where_clause(c, primary_keys)
        columns == [k \in DOMAIN values |-> values[k][1]]
    IN  /\ pc[t] = "idle"
        /\ optional_pool(t, cl,
            IF where.err # "" THEN Fail(t, cl, where)
            ELSE IF \E k \in DOMAIN columns : columns[k] \notin _columns_dict
            THEN Return(t, Raise(cl, "KeyError", 0)) /\ UNCHANGED <<conf, schema, custom, table, cache, lock>>
            ELSE Send(t, cl,
                      _build_query_update(c, where.sql, Len(primary_keys) + 1, columns),
                      Items(primary_keys) \o Items(values)))

\* Insertable.delete_record(connection, record), through delete_where
delete_record(t, c, connection, record) ==
    LET cl == [NoCall EXCEPT !.op = "delete_record", !.cls = c, !.connection = connection,
                             !.record = record]
        primary_keys == _get_primary_keys(c, record)
        where == _build_where_clause(c, primary_keys)
    IN  /\ pc[t] = "idle"
        /\ optional_pool(t, cl,
            IF where.err # "" THEN Fail(t, cl, where)
            ELSE Send(t, cl, _build_query_delete(c, where.sql), Items(primary_keys)))

\* A direct call of cls._build_where_clause(values): it returns the clause or raises.
BuildWhere(t, c, values) ==
    LET cl == [NoCall EXCEPT !.op = "_build_where_clause", !.cls = c, !.filter = values]
        where == _build_where_clause(c, values)
    IN  /\ pc[t] = "idle"
        /\ IF where.err # "" THEN Fail(t, cl, where)
           ELSE /\ Return(t, [Ok(cl, <<>>, None, 0, "") EXCEPT !.sql = where.sql])
                /\ UNCHANGED <<conf, schema, custom, table, cache, lock>>

\* The database's reply to the statement of a keyword operation.
Reply(t) ==
    /\ pc[t] = "sql"
    /\ LET cl == call[t]
           c == cl.cls
           res == IF cl.op = "insert_many" THEN ExecuteMany(c, table[c], cl.query, cl.args)
                  ELSE Execute(c, table[c], cl.query, cl.args)
           Done(rows) == Finish(t, cl, res.table, cache[c], {},
                                [Ok(cl, Handed(c, rows, cache[c], FALSE), None, 1, "db")
                                    EXCEPT !.sql = cl.query])
       IN  IF res.err # ""
           THEN Finish(t, cl, table[c], cache[c], {},
                       [Raise(cl, res.err, 1) EXCEPT !.sql = cl.query])
           ELSE CASE cl.op = "fetch" -> \E rows \in Orders(res.rows) : Done(rows)
                  [] cl.op \in {"fetch_row", "insert"} ->
                       IF res.rows = {} THEN Done(<<>>)
                       ELSE \E row \in res.rows : Done(<<row>>)
                  [] OTHER -> Done(<<>>)

\* ------------------------------------------------------------------ schema statements
\* Column._query: the name and the type; the columns are nullable columns without
\* default or reference.
_query(column) == column.name \o " " \o column._sql_type

\* A create statement whose else branch leaves the builder alone.
_query_create_NoPop(c, if_not_exists) ==
    LET head == (IF if_not_exists THEN <<"CREATE TABLE", "IF NOT EXISTS">>
                 ELSE <<"CREATE TABLE">>) \o <<_name(c), "(">>
        cols == head \o Commas([i \in DOMAIN _columns[c] |-> _query(_columns[c][i])])
    IN  IF _primary_keys(c) # <<>>
        THEN ListInto(Append(cols, "PRIMARY KEY ("), _primary_keys(c)) \o <<")", ")">>
        ELSE Append(cols, ")")

\* A create statement whose UNIQUE list leaves the primary-key columns out.
_query_create_UniqueNonKeys(c, if_not_exists) ==
    LET head == (IF if_not_exists THEN <<"CREATE TABLE", "IF NOT EXISTS">>
                 ELSE <<"CREATE TABLE">>) \o <<_name(c), "(">>
        cols == head \o Commas([i \in DOMAIN _columns[c] |-> _query(_columns[c][i])])
        unique_columns ==
            Names(SelectSeq(_columns[c], LAMBDA column : column.unique /\ ~column.primary_key))
        uniq == IF unique_columns # <<>>
                THEN ListInto(Append(cols, "UNIQUE ("), unique_columns) \o <<")", ",">>
                ELSE cols
        keys == IF _primary_keys(c) # <<>>
                THEN Append(ListInto(Append(uniq, "PRIMARY KEY ("), _primary_keys(c)), ")")
                ELSE SubSeq(uniq, 1, Len(uniq) - 1)
    IN  Append(keys, ")")

\* Table._query_create: the columns, each followed by a comma, the UNIQUE list, the
\* PRIMARY KEY list; without primary keys builder.pop(-1) takes the last token.
_query_create(c, if_not_exists) ==
    LET head == (IF if_not_exists THEN <<"CREATE TABLE", "IF NOT EXISTS">>
                 ELSE <<"CREATE TABLE">>) \o <<_name(c), "(">>
        cols == head \o Commas([i \in DOMAIN _columns[c] |-> _query(_columns[c][i])])
        unique_columns == Names(SelectSeq(_columns[c], IsUnique))
        uniq == IF unique_columns # <<>>
                THEN ListInto(Append(cols, "UNIQUE ("), unique_columns) \o <<")", ",">>
                ELSE cols
        keys == IF _primary_keys(c) # <<>>
                THEN Append(ListInto(Append(uniq, "PRIMARY KEY ("), _primary_keys(c)), ")")
                ELSE SubSeq(uniq, 1, Len(uniq) - 1)
    IN  Append(keys, ")")

\* Table._query_drop_column, Table._query_add_column
_query_drop_column(c, column) == <<"ALTER TABLE", _name(c), "DROP COLUMN", column.name>>

_query_add_column(c, column) == <<"ALTER TABLE", _name(c), "ADD COLUMN", _query(column)>>

\* Creatable._query_drop, Creatable._query_create_schema; every class is in the schema
\* public.
_query_drop(c, if_exists, cascade) ==
    <<"DROP", "TABLE">> \o (IF if_exists THEN <<"IF EXISTS">> ELSE <<>>) \o <<_name(c)>>
        \o (IF cascade THEN <<"CASCADE">> ELSE <<>>)

_query_create_schema(if_not_exists) ==
    <<"CREATE SCHEMA">> \o (IF if_not_exists THEN <<"IF NOT EXISTS">> ELSE <<>>)
        \o <<"public">>

\* Selectable._query_exists("tables") and the statement create reads the live columns
\* with; both take the table's schema and name as arguments.
_query_exists ==
    <<"SELECT EXISTS ( SELECT FROM information_schema.tables WHERE table_schema = $1 AND table_name = $2);">>

QueryColumns ==
    <<"SELECT * FROM information_schema.columns WHERE table_schema = $1 AND table_name = $2;">>

\* ------------------------------------------------------------------ schema database
\* The column a column definition names, "" when the token is no definition.
Defined(tok) ==
    IF \E n \in Range(ColumnNames) : tok = n \o " INTEGER"
    THEN CHOOSE n \in Range(ColumnNames) : tok = n \o " INTEGER"
    ELSE ""

Index(toks, tok) ==
    IF \E k \in DOMAIN toks : toks[k] = tok THEN CHOOSE k \in DOMAIN toks : toks[k] = tok
    ELSE 0

Restrict(row, S) == [n \in S |-> row[n]]

\* CREATE TABLE [IF NOT EXISTS] name ( definition , ... [, UNIQUE ( ... )]
\* [, PRIMARY KEY ( ... )] ): the columns of the new table in the order given, or the
\* error. The constraints must name columns of the table; they are not enforced here.
CreateTable(db, query) ==
    LET ine == Len(query) >= 2 /\ query[2] = "IF NOT EXISTS"
        at == IF ine THEN 3 ELSE 2
        body == SubSeq(query, at + 2, Len(query) - 1)
        u == Index(body, "UNIQUE (")
        p == Index(body, "PRIMARY KEY (")
        first == IF u # 0 THEN u ELSE IF p # 0 THEN p ELSE Len(body) + 1
        defs == IF first = Len(body) + 1 THEN Uncomma(body)
                ELSE IF first > 2 /\ body[first - 1] = ","
                THEN Uncomma(SubSeq(body, 1, first - 2)) ELSE <<"error">>
        uend == IF u = 0 THEN 0
                ELSE IF \E k \in (u + 1)..Len(body) : body[k] = ")"
                THEN CHOOSE k \in (u + 1)..Len(body) :
                        body[k] = ")" /\ \A j \in (u + 1)..(k - 1) : body[j] # ")"
                ELSE Len(body) + 1
        uniq == IF u = 0 THEN <<>>
                ELSE IF uend <= Len(body) /\ uend > u + 1
                THEN Uncomma(SubSeq(body, u + 1, uend - 1)) ELSE <<"error">>
        keys == IF p = 0 THEN <<>>
                ELSE IF Len(body) > p + 1 /\ body[Len(body)] = ")"
                THEN Uncomma(SubSeq(body, p + 1, Len(body) - 1)) ELSE <<"error">>
        columns == [i \in DOMAIN defs |-> Defined(defs[i])]
        wellformed ==
            /\ Len(query) >= at + 3
            /\ query[at + 1] = "(" /\ query[Len(query)] = ")"
            /\ query[at] \in TableNames
            /\ \A i \in DOMAIN columns : columns[i] # ""
            /\ u # 0 => IF p = 0 THEN uend = Len(body)
                        ELSE p = uend + 2 /\ body[uend + 1] = ","
            /\ Range(uniq) \cup Range(keys) \subseteq Range(ColumnNames)
    IN  IF ~wellformed THEN [live |-> db, rows |-> <<>>, err |-> "PostgresSyntaxError"]
        ELSE IF db[query[at]].exists
        THEN [live |-> db, rows |-> <<>>,
              err |-> IF ine THEN "" ELSE "DuplicateTableError"]
        ELSE IF Cardinality(Range(columns)) # Len(columns)
        THEN [live |-> db, rows |-> <<>>, err |-> "DuplicateColumnError"]
        ELSE IF ~(Range(uniq) \cup Range(keys) \subseteq Range(columns))
        THEN [live |-> db, rows |-> <<>>, err |-> "UndefinedColumnError"]
        ELSE [live |-> [db EXCEPT ![query[at]] =
                            [exists |-> TRUE, columns |-> columns, rows |-> <<>>]],
              rows |-> <<>>, err |-> ""]

\* ALTER TABLE name DROP COLUMN column / ADD COLUMN definition: the rows keep their
\* other columns, and a new column is NULL in every row.
AlterTable(db, query) ==
    LET T == db[query[2]]
        Answer(T2, e) == [live |-> [db EXCEPT ![query[2]] = T2], rows |-> <<>>, err |-> e]
        column == IF query[3] = "ADD COLUMN" THEN Defined(query[4]) ELSE query[4]
    IN  IF Len(query) # 4 \/ query[2] \notin TableNames
           \/ query[3] \notin {"DROP COLUMN", "ADD COLUMN"} \/ column = ""
        THEN [live |-> db, rows |-> <<>>, err |-> "PostgresSyntaxError"]
        ELSE IF ~T.exists THEN Answer(T, "UndefinedTableError")
        ELSE IF query[3] = "DROP COLUMN"
        THEN IF column \notin Range(T.columns) THEN Answer(T, "UndefinedColumnError")
             ELSE Answer([T EXCEPT
                            !.columns = SelectSeq(T.columns, LAMBDA n : n # column),
                            !.rows = [i \in DOMAIN T.rows |->
                                        Restrict(T.rows[i], Range(T.columns) \ {column})]],
                        "")
        ELSE IF column \in Range(T.columns) THEN Answer(T, "DuplicateColumnError")
        ELSE Answer([T EXCEPT
                       !.columns = Append(T.columns, column),
                       !.rows = [i \in DOMAIN T.rows |->
                                   [n \in Range(T.columns) \cup {column} |->
                                       IF n = column THEN None ELSE T.rows[i][n]]]],
                   "")

\* DROP TABLE [IF EXISTS] name [CASCADE]
DropTable(db, query) ==
    LET ie == Len(query) >= 3 /\ query[3] = "IF EXISTS"
        at == IF ie THEN 4 ELSE 3
    IN  IF ~(/\ Len(query) \in {at, at + 1} /\ query[2] = "TABLE"
             /\ query[at] \in TableNames
             /\ Len(query) = at + 1 => query[at + 1] = "CASCADE")
        THEN [live |-> db, rows |-> <<>>, err |-> "PostgresSyntaxError"]
        ELSE IF ~db[query[at]].exists
        THEN [live |-> db, rows |-> <<>>, err |-> IF ie THEN "" ELSE "UndefinedTableError"]
        ELSE [live |-> [db EXCEPT ![query[at]] = Absent], rows |-> <<>>, err |-> ""]

\* INSERT INTO name ( columns ) VALUES ( $1, ... ) with the values of one record: a
\* column left out is NULL.
InsertRow(db, query, args) ==
    LET T == db[query[2]]
        v == Index(query, ") VALUES (")
        columns == IF v > 4 THEN Uncomma(SubSeq(query, 4, v - 1)) ELSE <<"error">>
        params == IF Len(query) > v + 1 THEN Uncomma(SubSeq(query, v + 1, Len(query) - 1))
                  ELSE <<"error">>
        wellformed ==
            /\ Len(query) >= 7 /\ query[2] \in TableNames /\ query[3] = "("
            /\ v # 0 /\ query[Len(query)] = ")"
            /\ Range(columns) \subseteq Range(ColumnNames)
            /\ params = [i \in DOMAIN columns |-> Placeholder(i)]
        row == [n \in Range(T.columns) |->
                  IF n \in Range(columns) THEN args[Index(columns, n)] ELSE None]
        Answer(T2, e) == [live |-> [db EXCEPT ![query[2]] = T2], rows |-> <<>>, err |-> e]
    IN  IF ~wellformed THEN [live |-> db, rows |-> <<>>, err |-> "PostgresSyntaxError"]
        ELSE IF ~T.exists THEN Answer(T, "UndefinedTableError")
        ELSE IF ~(Range(columns) \subseteq Range(T.columns))
        THEN Answer(T, "UndefinedColumnError")
        ELSE IF Len(args) # Len(columns) THEN Answer(T, "InterfaceError")
        ELSE Answer([T EXCEPT !.rows = Append(T.rows, row)], "")

\* connection.executemany on the schema database: the statement once per record, all
\* or none.
RECURSIVE InsertRows(_, _, _)
InsertRows(db, query, values) ==
    IF values = <<>> THEN [live |-> db, rows |-> <<>>, err |-> ""]
    ELSE LET res == InsertRow(db, query, Head(values))
         IN  IF res.err # "" THEN [res EXCEPT !.live = db]
             ELSE LET rest == InsertRows(res.live, query, Tail(values))
                  IN  IF rest.err # "" THEN [rest EXCEPT !.live = db] ELSE rest

\* connection.execute / fetch / fetchrow of a schema statement: the database after
\* it, the rows it returns, the error it raises.
Run(db, query, args) ==
    CASE query[1] = "CREATE TABLE" -> CreateTable(db, query)
      [] query[1] = "ALTER TABLE" -> AlterTable(db, query)
      [] query[1] = "DROP" -> DropTable(db, query)
      [] query[1] = "INSERT INTO" -> InsertRows(db, query, args)
      [] query[1] = "CREATE SCHEMA" ->
           [live |-> db, rows |-> <<>>,
            err |-> IF query = _query_create_schema(TRUE) THEN ""
                    ELSE IF query = _query_create_schema(FALSE) THEN "DuplicateSchemaError"
                    ELSE "PostgresSyntaxError"]
      [] query[1] = "SELECT * FROM" ->
           IF Len(query) # 2 \/ query[2] \notin TableNames
           THEN [live |-> db, rows |-> <<>>, err |-> "PostgresSyntaxError"]
           ELSE IF ~db[query[2]].exists
           THEN [live |-> db, rows |-> <<>>, err |-> "UndefinedTableError"]
           ELSE [live |-> db, rows |-> db[query[2]].rows, err |-> ""]
      [] query = _query_exists ->
           [live |-> db, rows |-> <<[exists |-> db[args[1]].exists]>>, err |-> ""]
      [] query = QueryColumns ->
           [live |-> db, err |-> "",
            rows |-> [i \in DOMAIN db[args[1]].columns |->
                        [column_name |-> db[args[1]].columns[i]]]]
      [] OTHER -> [live |-> db, rows |-> <<>>, err |-> "PostgresSyntaxError"]

\* ------------------------------------------------------------------ schema operations
\* A schema operation runs on one connection without another task in between: it is a
\* function of the state st it starts in, [columns |-> _columns, live |-> the
\* database, sent |-> the statements executed so far, rows |-> the last reply,
\* err |-> the exception raised], and the calls of one operation are chained.
Exec(st, query, args) ==
    LET res == Run(st.live, query, args)
    IN  [st EXCEPT !.live = res.live, !.sent = Append(@, query), !.rows = res.rows,
                   !.err = res.err]

\* column._copy(): the copy is attached to no table.
_copy(column) == [column EXCEPT !.table = "MISSING"]

\* del column.table, once the statement has been executed.
Detached(st, c, i) ==
    IF st.err # "" THEN st ELSE [st EXCEPT !.columns[c][i].table = "MISSING"]

\* Table.drop_column(connection, column), column the i-th of cls._columns: the column
\* stays in cls._columns_dict, only its table attribute is deleted.
drop_column(st, c, i) ==
    IF st.columns[c][i].table # c THEN [st EXCEPT !.err = "ValueError"]
    ELSE Detached(Exec(st, _query_drop_column(c, st.columns[c][i]), <<>>), c, i)

\* column.table = cls, once the statement has been executed.
Attached(st, c) ==
    IF st.err # "" THEN st ELSE [st EXCEPT !.columns[c][Len(st.columns[c])].table = c]

\* Table.add_column(connection, column): the column is entered in cls._columns_dict
\* before the statement is built and executed, and attached after it; a column
\* without a type has no definition to build.
add_column(st, c, column) ==
    IF column.table # "MISSING" \/ column.name \in Range(Names(st.columns[c]))
    THEN [st EXCEPT !.err = "ValueError"]
    ELSE IF column._sql_type = "MISSING"
    THEN [st EXCEPT !.columns[c] = Append(@, column), !.err = "AttributeError"]
    ELSE Attached(Exec([st EXCEPT !.columns[c] = Append(@, column)],
                       _query_add_column(c, column), <<>>), c)

\* for column in cls._columns: if column.name not in columns_dict: drop_column
RECURSIVE DropLoop(_, _, _, _)
DropLoop(st, c, i, target) ==
    IF st.err # "" \/ i > Len(st.columns[c]) THEN st
    ELSE DropLoop(IF st.columns[c][i].name \notin target THEN drop_column(st, c, i) ELSE st,
                  c, i + 1, target)

\* for column in columns_dict: if column not in cls._columns_dict: add_column
RECURSIVE AddLoop(_, _, _, _)
AddLoop(st, c, columns, i) ==
    IF st.err # "" \/ i > Len(columns) THEN st
    ELSE AddLoop(IF columns[i].name \notin Range(Names(st.columns[c]))
                 THEN add_column(st, c, columns[i]) ELSE st,
                 c, columns, i + 1)

\* async with optional_transaction(connection, with_transaction): an exception rolls
\* the database back to where the block began, not the class.
optional_transaction(st, with_transaction, block) ==
    IF block.err # "" /\ with_transaction THEN [block EXCEPT !.live = st.live] ELSE block

\* Table.migrate(connection, columns, with_transaction)
migrate(st, c, columns, with_transaction) ==
    optional_transaction(st, with_transaction,
        AddLoop(DropLoop(st, c, 1, Range(Names(columns))), c, columns, 1))

\* Creatable.drop(connection, if_exists=True, cascade=False)
drop(st, c) == Exec(st, _query_drop(c, TRUE, FALSE), <<>>)

\* The branches of Creatable.create, last first: each takes the state the call has
\* reached. create_table is the plain CREATE TABLE.
create_table(st, c, if_not_exists) ==
    IF st.err # "" THEN st ELSE Exec(st, _query_create(c, if_not_exists), <<>>)

\* cls._columns_dict rebuilt from the live columns old_columns, which st.rows names,
\* and the migration to the copies new_columns of the columns the class had.
create_migrate(st, c, order, new_columns) ==
    LET old_columns == {st.rows[i].column_name : i \in DOMAIN st.rows}
        kept == SelectSeq(st.columns[c], LAMBDA column : column.name \in old_columns)
        found == SelectSeq(order, LAMBDA n : n \in old_columns /\ n \notin Range(Names(kept)))
    IN  IF st.err # "" THEN st
        ELSE migrate([st EXCEPT !.columns[c] =
                         kept \o [i \in DOMAIN found |->
                                    [Column(found[i], FALSE, FALSE, c)
                                        EXCEPT !._sql_type = "MISSING"]]],
                     c, new_columns, TRUE)

create_exists(st, c, if_not_exists, order) ==
    IF st.err # "" THEN st
    ELSE IF ~st.rows[1].exists THEN create_table(st, c, if_not_exists)
    ELSE create_migrate(Exec(st, QueryColumns, <<_name(c)>>), c, order,
                        [i \in DOMAIN st.columns[c] |-> _copy(st.columns[c][i])])

create_schema_done(st, c, if_not_exists, automatic_migrations, order) ==
    IF st.err # "" THEN st
    ELSE IF ~automatic_migrations THEN create_table(st, c, if_not_exists)
    ELSE create_exists(Exec(st, _query_exists, <<_name(c)>>), c, if_not_exists, order)

\* Table.create -> Creatable.create(connection, if_not_exists, create_schema,
\* automatic_migrations). Table.create first looks for custom types with
\* issubclass(column.sql_type, CustomType), a TypeError when the type is MISSING; no
\* column has a custom type. order is the order in which the set old_columns is
\* iterated.
create(st, c, if_not_exists, create_schema, automatic_migrations, order) ==
    IF \E i \in DOMAIN st.columns[c] : st.columns[c][i]._sql_type = "MISSING"
    THEN [st EXCEPT !.err = "TypeError"]
    ELSE create_schema_done(IF create_schema
                            THEN Exec(st, _query_create_schema(if_not_exists), <<>>)
                            ELSE st,
                            c, if_not_exists, automatic_migrations, order)

\* The dict of a fetched record: its items in the order of the table's columns.
Dict(columns, record) == [i \in DOMAIN columns |-> <<columns[i], record[columns[i]]>>]

\* Insertable.insert_many(connection, None, *values) of a schema class: the columns
\* are the keys of the first record, each of which must be a column of the class.
insert_many_records(st, c, values) ==
    LET columns == [k \in DOMAIN values[1] |-> values[1][k][1]]
        query == _build_query_insert(_name(c), columns, FALSE, <<>>, <<>>)
    IN  IF values = <<>> THEN [st EXCEPT !.err = "IndexError"]
        ELSE IF ~(Range(columns) \subseteq Range(Names(st.columns[c])))
        THEN [st EXCEPT !.err = "KeyError"]
        ELSE Exec(st, query.sql, [k \in DOMAIN values |-> Items(values[k])])

\* Table.migrate_to(connection, table, migration, create_new_table=, drop_table=,
\* with_transaction=); migration is "MISSING" or "fn", a caller's function, and
\* migrated is what it makes of the records.
\* The steps of the default migration, last first: each takes the state the call
\* has reached.
migrate_to_drop(st, c, drop_table) ==
    IF st.err # "" \/ ~drop_table THEN st ELSE drop(st, c)

migrate_to_insert(st, c, tbl, drop_table) ==
    IF st.err # "" THEN st
    ELSE migrate_to_drop(
             insert_many_records(st, tbl,
                 [i \in DOMAIN st.rows |-> Dict(st.live[_name(c)].columns, st.rows[i])]),
             c, drop_table)

migrate_to_fetch(st, c, tbl, drop_table) ==
    IF st.err # "" THEN st
    ELSE migrate_to_insert(Exec(st, _build_query_fetch(_name(c), <<>>), <<>>),
                           c, tbl, drop_table)

migrate_to(st, c, tbl, migration, create_new_table, drop_table, with_transaction) ==
    IF _name(c) = _name(tbl)
    THEN IF migration # "MISSING" THEN [st EXCEPT !.err = "ValueError"]
         ELSE migrate(st, c, [i \in DOMAIN st.columns[tbl] |-> _copy(st.columns[tbl][i])],
                      TRUE)
    ELSE optional_transaction(st, with_transaction,
             IF migration # "MISSING" THEN st
             ELSE migrate_to_fetch(IF create_new_table
                                   THEN create(st, tbl, TRUE, TRUE, FALSE, <<>>) ELSE st,
                                   c, tbl, drop_table))

\* ------------------------------------------------------------------ schema calls
\* The state a schema operation starts in, and the call's record of what it did.
Start == [columns |-> _columns, live |-> live, sent |-> <<>>, rows |-> <<>>, err |-> ""]

Called(op, c, tbl, columns, flags, st) ==
    /\ _columns' = st.columns
    /\ live' = st.live
    /\ ddl' = [op |-> op, cls |-> c, target |-> tbl, columns |-> columns, flags |-> flags,
               err |-> st.err, sent |-> st.sent, before |-> live[_name(c)],
               tracked |-> _columns[c], generated |-> <<>>]
    /\ UNCHANGED <<conf, custom, declared, table, cache, lock, pc, call, ret>>

CallMigrate(c, columns, with_transaction) ==
    Called("migrate", c, "", columns,
           IF with_transaction THEN {"with_transaction"} ELSE {},
           migrate(Start, c, columns, with_transaction))

CallDropColumn(c, i) ==
    /\ i \in DOMAIN _columns[c]
    /\ Called("drop_column", c, "", <<_columns[c][i]>>, {}, drop_column(Start, c, i))

CallAddColumn(c, column) ==
    Called("add_column", c, "", <<column>>, {}, add_column(Start, c, column))

\* A call of migrate_to; flags names the options that are set, "migration" a caller's
\* migration function.
CallMigrateTo(c, tbl, migration, create_new_table, drop_table, with_transaction) ==
    Called("migrate_to", c, tbl, <<>>,
           (IF migration # "MISSING" THEN {"migration"} ELSE {})
             \cup (IF create_new_table THEN {"create_new_table"} ELSE {})
             \cup (IF drop_table THEN {"drop_table"} ELSE {})
             \cup (IF with_transaction THEN {"with_transaction"} ELSE {}),
           migrate_to(Start, c, tbl, migration, create_new_table, drop_table,
                      with_transaction))

\* A call of create, and one of drop. order is the order in which create iterates
\* the set of live column names.
CallCreate(c, if_not_exists, create_schema, automatic_migrations, order) ==
    Called("create", c, "", <<>>,
           (IF if_not_exists THEN {"if_not_exists"} ELSE {})
             \cup (IF create_schema THEN {"create_schema"} ELSE {})
             \cup (IF automatic_migrations THEN {"automatic_migrations"} ELSE {}),
           create(Start, c, if_not_exists, create_schema, automatic_migrations, order))

CallDrop(c) == Called("drop", c, "", <<>>, {}, drop(Start, c))

\* ------------------------------------------------------------------ joins
\* A source of a join: a Table class, or a Join class, which has an alias and whose
\* name is its select. _columns are the names of its columns in order and _sources
\* the side of the join ("a" or "b") each column of a Join came from.
Source(c) ==
    [id |-> c, join |-> FALSE, _type |-> "", _alias |-> "", _name |-> <<_name(c)>>,
     _columns |-> Names(_columns[c]), _sources |-> <<>>]

NoJoin ==
    [id |-> "", join |-> FALSE, _type |-> "", _alias |-> "", _name |-> <<>>,
     _columns |-> <<>>, _sources |-> <<>>]

\* A column union in which the right source wins a shared name.
_set_columns_RightWins(a, b) ==
    [i \in DOMAIN a._columns |->
        [name |-> a._columns[i],
         source |-> IF a._columns[i] \in Range(b._columns) THEN "b" ELSE "a"]]
    \o [i \in DOMAIN SelectSeq(b._columns, LAMBDA n : n \notin Range(a._columns)) |->
          [name |-> SelectSeq(b._columns, LAMBDA n : n \notin Range(a._columns))[i],
           source |-> "b"]]

\* Join._set_columns: every column of a, then the columns of b whose name is not yet
\* in cls._columns_dict.
_set_columns(a, b) ==
    [i \in DOMAIN a._columns |-> [name |-> a._columns[i], source |-> "a"]]
    \o [i \in DOMAIN SelectSeq(b._columns, LAMBDA n : n \notin Range(a._columns)) |->
          [name |-> SelectSeq(b._columns, LAMBDA n : n \notin Range(a._columns))[i],
           source |-> "b"]]

\* Join._build_select: generated_a and generated_b are what generate_alias returned
\* for the two sources, used for a source that is no Join; cls._aliases is a dict
\* keyed by the sources, so one class joined with itself has the alias of b.
_build_select(a, b, type, on, alias, generated_a, generated_b) ==
    LET alias_a == IF a.join THEN a._alias ELSE generated_a
        alias_b == IF b.join THEN b._alias ELSE generated_b
        columns == _set_columns(a, b)
        _aliases(source) == IF source = "b" \/ a.id = b.id THEN alias_b ELSE alias_a
        selected == [k \in 1..(4 * Len(columns)) |->
                       LET column == columns[((k - 1) \div 4) + 1]
                       IN  CASE k % 4 = 1 -> _aliases(column.source) \o "." \o column.name
                             [] k % 4 = 2 -> "AS"
                             [] k % 4 = 3 -> column.name
                             [] OTHER -> ","]
        select == <<"( SELECT">> \o selected
        clauses == [k \in 1..(4 * Len(on)) |->
                      LET clause == on[((k - 1) \div 4) + 1]
                      IN  CASE k % 4 = 1 -> alias_a \o "." \o clause[1]
                            [] k % 4 = 2 -> OperatorSymbol[clause[3]]
                            [] k % 4 = 3 -> alias_b \o "." \o clause[2]
                            [] OTHER -> "AND"]
        from == SubSeq(select, 1, Len(select) - 1) \o <<"FROM">> \o a._name
                  \o (IF ~a.join THEN <<"AS", alias_a>> ELSE <<>>)
                  \o <<type, "JOIN">> \o b._name
                  \o (IF ~b.join THEN <<"AS", alias_b>> ELSE <<>>)
                  \o <<"ON">> \o clauses
    IN  SubSeq(from, 1, Len(from) - 1) \o <<") AS", alias>>

\* Selectable._join(other, type, on): the new Join class, named by generate_alias.
_join(id, a, b, type, on, alias, generated_a, generated_b) ==
    [id |-> id, join |-> TRUE, _type |-> type, _alias |-> alias,
     _name |-> _build_select(a, b, type, on, alias, generated_a, generated_b),
     _columns |-> Names(_set_columns(a, b)),
     _sources |-> [i \in DOMAIN _set_columns(a, b) |-> _set_columns(a, b)[i].source]]

\* Selectable.inner_join, left_join, right_join, full_outer_join
inner_join(id, a, b, on, alias, generated_a, generated_b) ==
    _join(id, a, b, "INNER", on, alias, generated_a, generated_b)

left_join(id, a, b, on, alias, generated_a, generated_b) ==
    _join(id, a, b, "LEFT", on, alias, generated_a, generated_b)

right_join(id, a, b, on, alias, generated_a, generated_b) ==
    _join(id, a, b, "LEFT", on, alias, generated_a, generated_b)

full_outer_join(id, a, b, on, alias, generated_a, generated_b) ==
    _join(id, a, b, "FULL OUTER", on, alias, generated_a, generated_b)

\* A call of one of the four methods on a with the on-clause (a's first column, b's
\* first column): ddl records the method, the two sources, the Join returned and the
\* aliases generated for the sources.
CallJoin(method, id, a, b, alias, generated_a, generated_b) ==
    LET on == <<<<a._columns[1], b._columns[1], "eq">>>>
        made == CASE method = "inner_join" ->
                       inner_join(id, a, b, on, alias, generated_a, generated_b)
                  [] method = "left_join" ->
                       left_join(id, a, b, on, alias, generated_a, generated_b)
                  [] method = "right_join" ->
                       right_join(id, a, b, on, alias, generated_a, generated_b)
                  [] method = "full_outer_join" ->
                       full_outer_join(id, a, b, on, alias, generated_a, generated_b)
    IN  /\ ddl' = [NoDone EXCEPT !.op = method, !.cls = a, !.target = b, !.columns = made,
                                  !.generated = <<generated_a, generated_b>>]
        /\ UNCHANGED <<conf, custom, declared, _columns, live, table, cache, lock, pc, call, ret>>

\* ------------------------------------------------------------------ specifications
KwargsOver(K, B) ==
    {f \in UNION {[D -> K \cup B] : D \in SUBSET {"a", "b"}} :
        /\ "a" \in DOMAIN f => f["a"] \in K
        /\ "b" \in DOMAIN f => f["b"] \in B}

\* The calls a task may make: classes C, filters KW, inserted values IV, assigned
\* values UV, fetched columns COLS, conflict options MODES.
Calls(C, KW, IV, UV, COLS, MODES) ==
    {[NoCall EXCEPT !.op = op, !.cls = c, !.kwargs = kw] :
        op \in {"fetch_where", "fetch_row_where", "delete_where"}, c \in C, kw \in KW}
    \cup {[NoCall EXCEPT !.op = "fetch_value_where", !.cls = c, !.kwargs = kw, !.column = col] :
        c \in C, kw \in KW, col \in COLS}
    \cup {[NoCall EXCEPT !.op = "insert", !.cls = c, !.values = v, !.on_conflict = m] :
        c \in C, v \in IV, m \in MODES}
    \cup {[NoCall EXCEPT !.op = "update_where", !.cls = c, !.kwargs = kw, !.values = v] :
        c \in C, kw \in KW, v \in UV}

InitWith(sizes) ==
    /\ max_size = sizes
    /\ _base_pool = "None"
    /\ table = [c \in Classes |-> {}]
    /\ cache = [c \in Classes |-> <<>>]
    /\ lock = [c \in Classes |-> Free]
    /\ pc = [t \in AllTasks |-> "idle"]
    /\ call = [t \in AllTasks |-> NoCall]
    /\ ret = [t \in AllTasks |-> NoRet]
    /\ NoSchema

\* --- Spec: one task working on one unbounded CachedTable class, every filter.
Init == InitWith([c \in Classes |-> None])

SpecCalls ==
    LET KW == KwargsOver(Keys, BVals)
    IN  Calls({"A"}, KW, KW \ {NoKwargs}, {f \in KW : Cardinality(DOMAIN f) = 1},
              {"a", "b"}, {"", "ignore", "update"})

Next ==
    \E t \in {"t1"} :
        \/ \E cl \in SpecCalls : Call(t, cl)
        \/ DbReply(t)
        \/ \E kw \in KwargsOver(Keys, BVals) : GetCached(t, "A", kw)
        \/ clear_cache(t, "A")

Spec == Init /\ [][Next]_vars

\* --- SpecLock: two tasks on two CachedTable classes and a plain Table, one key.
InitLock == InitWith([c \in Classes |-> None])

LockCalls ==
    Calls({"A", "B"}, {[a |-> 1]}, {[a |-> 1]}, {[b |-> None]}, {"a"}, {""})
    \cup Calls({"U"}, {[a |-> 1]}, {[a |-> 1]}, {}, {}, {""})

NextLock ==
    \E t \in AllTasks :
        \/ \E cl \in LockCalls : Call(t, cl)
        \/ Acquire(t)
        \/ DbReply(t)
        \/ GetCached(t, "A", [a |-> 1])
        \/ clear_cache(t, "A")

SpecLock == InitLock /\ [][NextLock]_vars

\* --- SpecSync: two tasks on one CachedTable class, the lock-free operations and the
\* callers' assignments to the rows they were handed.
InitSync == InitWith([c \in Classes |-> None])

SyncCalls ==
    Calls({"A"}, {[a |-> 1]}, {[a |-> 1, b |-> v] : v \in BVals},
          {[b |-> v] : v \in BVals}, {"b"}, {"update"})

NextSync ==
    \E t \in AllTasks :
        \/ \E cl \in SyncCalls : Call(t, cl)
        \/ Acquire(t)
        \/ DbReply(t)
        \/ \E kw \in {NoKwargs, [a |-> 1]} : GetCached(t, "A", kw)
        \/ clear_cache(t, "A")
        \/ \E connection \in {"None", "conn"}, values \in SUBSET {<<1, v>> : v \in BVals} :
              insert_many(t, "A", connection, values)
        \/ \E v \in BVals : Mutate(t, 1, v)

SpecSync == InitSync /\ [][NextSync]_vars

\* --- SpecLRU: one task on a CachedTable class declared with max_cache_size.
LRUKeys == 1..MaxLRUKey

InitLRU ==
    \E n \in 1..MaxCacheSize : InitWith([c \in Classes |-> IF c = "B" THEN n ELSE None])

LRUCalls ==
    LET KW == {NoKwargs} \cup {[a |-> k] : k \in LRUKeys}
    IN  Calls({"B"}, KW, KW \ {NoKwargs}, {[b |-> None]}, {"a"}, {"update"})

NextLRU ==
    \E t \in {"t1"} :
        \/ \E cl \in LRUCalls : Call(t, cl)
        \/ DbReply(t)
        \/ \E k \in LRUKeys : GetCached(t, "B", [a |-> k])

SpecLRU == InitLRU /\ [][NextLRU]_vars

\* --- SpecWhere: one task makes one call of a keyword operation or of the builder on
\* the plain Table U, with any filter of up to MaxClauses keyword arguments. x is not
\* a column and __zz is not an operator suffix.
FilterNames ==
    {<<"a">>, <<"a", "__eq">>, <<"a", "__ne">>, <<"a", "__lt">>, <<"a", "__in">>,
     <<"a", "__zz">>, <<"a", "__ne", "__eq">>, <<"x">>,
     <<"or_", "b">>, <<"or_", "b", "__ne">>}

Filters(max) ==
    {f \in UNION {[1..n -> FilterNames \X {None, 1}] : n \in 0..max} :
        \A i, j \in DOMAIN f : i # j => f[i][1] # f[j][1]}

\* call holds the call the task is about to make.
WhereCalls(max) ==
    {[NoCall EXCEPT !.op = op, !.cls = "U", !.connection = connection, !.filter = values] :
        op \in {"fetch", "fetch_row", "delete"}, connection \in {"None", "conn"},
        values \in Filters(max)}
    \cup {[NoCall EXCEPT !.op = "_build_where_clause", !.cls = "U", !.filter = values] :
        values \in Filters(max)}

InitWhere ==
    /\ max_size = [c \in Classes |-> None]
    /\ _base_pool \in {"None", "pool"}
    /\ table = [c \in Classes |-> IF c = "U" THEN {[a |-> 1, b |-> None], [a |-> 2, b |-> 1]}
                                  ELSE {}]
    /\ cache = [c \in Classes |-> <<>>]
    /\ lock = [c \in Classes |-> Free]
    /\ pc = [t \in AllTasks |-> "idle"]
    /\ call \in {[t \in AllTasks |-> IF t = "t1" THEN cl ELSE NoCall] :
                    cl \in {x \in WhereCalls(MaxClauses) :
                               x.connection # "None" => _base_pool = "None"}}
    /\ ret = [t \in AllTasks |-> NoRet]
    /\ NoSchema

NextWhere ==
    \E t \in {"t1"} :
        LET cl == call[t]
        IN  \/ cl.op = "fetch" /\ fetch(t, cl.cls, cl.connection, cl.filter)
            \/ cl.op = "fetch_row" /\ fetch_row(t, cl.cls, cl.connection, cl.filter)
            \/ cl.op = "delete" /\ delete(t, cl.cls, cl.connection, cl.filter)
            \/ cl.op = "_build_where_clause" /\ BuildWhere(t, cl.cls, cl.filter)
            \/ Reply(t)

SpecWhere == InitWhere /\ [][NextWhere]_vars

\* --- SpecTable: one task on the plain Tables U (primary key a) and V (primary key
\* (a, b)): rows are inserted, fetched by key, and the fetched record is updated or
\* deleted. The task fills one of the two tables at a time.
InitTable == InitWith([c \in Classes |-> None])

Assignments ==
    {f \in UNION {[1..n -> {"a", "b"} \X (Keys \cup BVals)] : n \in 0..2} :
        /\ \A i, j \in DOMAIN f : i # j => f[i][1] # f[j][1]
        /\ \A i \in DOMAIN f : f[i][1] = "a" => f[i][2] \in Keys
        /\ \A i \in DOMAIN f : f[i][1] = "b" => f[i][2] \in BVals}

NextTable ==
    \E t \in {"t1"} :
        \/ \E cl \in Calls({"U", "V"}, {}, {[a |-> k, b |-> v] : k \in Keys, v \in BVals},
                           {}, {}, {""}) :
              /\ \A c \in {"U", "V"} \ {cl.cls} : table[c] = {}
              /\ Call(t, cl)
        \/ DbReply(t)
        \/ \E c \in {"U", "V"}, k \in Keys :
              /\ \A d \in {"U", "V"} \ {c} : table[d] = {}
              /\ fetch_row(t, c, "conn", <<<<<<"a">>, k>>>>)
        \/ \E values \in Assignments :
              /\ ret[t].op = "fetch_row" /\ ret[t].rows # <<>>
              /\ update_record(t, ret[t].cls, "conn", ret[t].rows[1].rec, values)
        \/ /\ ret[t].op = "fetch_row" /\ ret[t].rows # <<>>
           /\ delete_record(t, ret[t].cls, "conn", ret[t].rows[1].rec)
        \/ Reply(t)

SpecTable == InitTable /\ [][NextTable]_vars

\* --- SpecFold: one task fetches from the plain Table U with a filter of 1..MaxFold
\* valid keyword arguments, each AND'd or OR'd (or_) to the ones before it.
FoldNames ==
    {<<"a">>, <<"or_", "a">>, <<"a", "__lt">>, <<"b", "__ne">>, <<"or_", "b", "__ne">>,
     <<"or_", "b">>}

FoldFilters(max) ==
    {f \in UNION {[1..n -> FoldNames \X {None, 1}] : n \in 1..max} :
        \A i, j \in DOMAIN f : i # j => f[i][1] # f[j][1]}

InitFold ==
    /\ max_size = [c \in Classes |-> None]
    /\ _base_pool = "None"
    /\ table = [c \in Classes |-> IF c = "U" THEN {[a |-> 1, b |-> None], [a |-> 2, b |-> 1]}
                                  ELSE {}]
    /\ cache = [c \in Classes |-> <<>>]
    /\ lock = [c \in Classes |-> Free]
    /\ pc = [t \in AllTasks |-> "idle"]
    /\ call \in {[t \in AllTasks |->
                    IF t = "t1" THEN [NoCall EXCEPT !.op = "fetch", !.cls = "U",
                                                    !.connection = "conn", !.filter = f]
                    ELSE NoCall] : f \in FoldFilters(MaxFold)}
    /\ ret = [t \in AllTasks |-> NoRet]
    /\ NoSchema

NextFold ==
    \E t \in {"t1"} :
        \/ ret[t].op = "none" /\ fetch(t, call[t].cls, call[t].connection, call[t].filter)
        \/ Reply(t)

SpecFold == InitFold /\ [][NextFold]_vars

\* --- SpecIn: one task calls fetch or the builder on the plain Tables U (b INTEGER)
\* and W (b TEXT) with one or two keyword arguments, among them in-clauses whose
\* values are lists of 0..MaxList elements.
InNames ==
    {<<"a">>, <<"a", "__in">>, <<"b", "__in">>, <<"b", "__ne">>, <<"or_", "b", "__in">>}

InFilters(max) ==
    {f \in UNION {[1..n -> InNames \X ({None, 1} \cup {List(S) : S \in SUBSET (1..max)})] :
                    n \in 1..2} :
        \A i, j \in DOMAIN f : i # j => f[i][1] # f[j][1]}

InitIn ==
    /\ max_size = [c \in Classes |-> None]
    /\ _base_pool = "None"
    /\ table = [c \in Classes |-> IF c \in {"U", "W"}
                                  THEN {[a |-> 1, b |-> None], [a |-> 2, b |-> 1]} ELSE {}]
    /\ cache = [c \in Classes |-> <<>>]
    /\ lock = [c \in Classes |-> Free]
    /\ pc = [t \in AllTasks |-> "idle"]
    /\ call \in {[t \in AllTasks |->
                    IF t = "t1" THEN [NoCall EXCEPT !.op = op, !.cls = c,
                                                    !.connection = "conn", !.filter = f]
                    ELSE NoCall] :
                 op \in {"fetch", "_build_where_clause"}, c \in {"U", "W"}, f \in InFilters(MaxList)}
    /\ ret = [t \in AllTasks |-> NoRet]
    /\ NoSchema

NextIn ==
    \E t \in {"t1"} :
        \/ /\ ret[t].op = "none" /\ call[t].op = "fetch"
           /\ fetch(t, call[t].cls, call[t].connection, call[t].filter)
        \/ /\ ret[t].op = "none" /\ call[t].op = "_build_where_clause"
           /\ BuildWhere(t, call[t].cls, call[t].filter)
        \/ Reply(t)

SpecIn == InitIn /\ [][NextIn]_vars

\* --- SpecInsert: one task inserts into the plain Tables U (primary key a), V (primary
\* key (a, b)) and N (no primary key) with insert and insert_many, every combination of the conflict
\* options, records of up to two keywords; x is not a column. The task makes one call,
\* on tables that earlier inserts have filled.
InsertValues ==
    {f \in UNION {[1..n -> ({"a"} \X {1, 2}) \cup ({"b"} \X {None, 1}) \cup ({"x"} \X {1})] :
                    n \in 0..2} :
        /\ \A i, j \in DOMAIN f : i # j => f[i][1] # f[j][1]
        /\ \A i \in DOMAIN f : f[i][1] = "x" => i = Len(f)}

ManyValues(max) ==
    UNION {[1..n -> {<<<<"a", 1>>, <<"b", 1>>>>, <<<<"a", 2>>, <<"b", None>>>>, <<<<"x", 1>>>>}] :
             n \in 0..max}

ConflictColumns == {<<>>, <<"b">>, <<"b", "a">>}

\* The tables a run of inserts can have built: the primary key is unique and not null.
InsertTables(c) ==
    {T \in SUBSET [a : {1, 2}, b : {None, 1}] :
        /\ \A row \in T : \A i \in DOMAIN _primary_keys(c) : row[_primary_keys(c)[i]] # None
        /\ \A r1, r2 \in T :
              (_primary_keys(c) # <<>>
                 /\ _get_primary_key_values(c, r1) = _get_primary_key_values(c, r2)) => r1 = r2}

InitInsert ==
    /\ max_size = [c \in Classes |-> None]
    /\ _base_pool = "None"
    /\ table \in {[c \in Classes |-> IF c = d THEN T ELSE {}] :
                    d \in {"U", "V", "N"}, T \in InsertTables("U") \cup InsertTables("V")}
    /\ \A c \in {"U", "V"} : table[c] \in InsertTables(c)
    /\ cache = [c \in Classes |-> <<>>]
    /\ lock = [c \in Classes |-> Free]
    /\ pc = [t \in AllTasks |-> "idle"]
    /\ call = [t \in AllTasks |-> NoCall]
    /\ ret = [t \in AllTasks |-> NoRet]
    /\ NoSchema

NextInsert ==
    \E t \in {"t1"} :
        \/ \E c \in {"U", "V", "N"}, values \in InsertValues, ignore_on_conflict \in BOOLEAN,
              update_on_conflict \in ConflictColumns, returning \in {<<>>, <<"*">>} :
              /\ ret[t].op = "none"
              /\ _insert(t, c, "conn", ignore_on_conflict, update_on_conflict, returning, values)
        \/ \E c \in {"U", "V", "N"}, values \in ManyValues(MaxInsert), ignore_on_conflict \in BOOLEAN,
              update_on_conflict \in ConflictColumns :
              /\ ret[t].op = "none"
              /\ _insert_many(t, c, "conn", values, ignore_on_conflict, update_on_conflict)
        \/ Reply(t)

SpecInsert == InitInsert /\ [][NextInsert]_vars

\* All lists of up to max distinct columns over the names ns, none attached, none
\* flagged.
Lists(ns, max) ==
    {s \in UNION {[1..n -> Range(ns)] : n \in 0..max} :
        \A i, j \in DOMAIN s : i # j => s[i] # s[j]}

Fresh(names) == [i \in DOMAIN names |-> Column(names[i], FALSE, FALSE, "MISSING")]

\* The class as its declaration leaves it: every declared column attached to it.
Declared(c, columns) == [i \in DOMAIN columns |-> [columns[i] EXCEPT !.table = c]]

\* --- SpecMigrate: the Table class S, declared with any columns and created, is
\* migrated to any list of fresh columns, and single columns are dropped and added.
InitMigrate ==
    /\ max_size = [c \in Classes |-> None]
    /\ _base_pool = "None"
    /\ table = [c \in Classes |-> {}]
    /\ cache = [c \in Classes |-> <<>>]
    /\ lock = [c \in Classes |-> Free]
    /\ pc = [t \in AllTasks |-> "idle"]
    /\ call = [t \in AllTasks |-> NoCall]
    /\ ret = [t \in AllTasks |-> NoRet]
    /\ \E names \in Lists(ColumnNames, MaxColumns) \ {<<>>} :
          /\ declared = [c \in SchemaClasses |->
                           IF c = "S" THEN [_name |-> "s", columns |-> Fresh(names)]
                           ELSE [_name |-> "", columns |-> <<>>]]
          /\ _columns = [c \in SchemaClasses |->
                           IF c = "S" THEN Declared("S", Fresh(names)) ELSE <<>>]
          /\ live = [n \in TableNames |->
                       IF n = "s"
                       THEN [exists |-> TRUE, columns |-> names,
                             rows |-> <<[x \in Range(names) |-> 1]>>]
                       ELSE Absent]
    /\ ddl = NoDone
    /\ NoCustomTypes

NextMigrate ==
    \/ \E names \in Lists(ColumnNames, MaxColumns), with_transaction \in BOOLEAN :
          CallMigrate("S", Fresh(names), with_transaction)
    \/ \E i \in DOMAIN ColumnNames : CallDropColumn("S", i)
    \/ \E n \in Range(ColumnNames) : CallAddColumn("S", Column(n, FALSE, FALSE, "MISSING"))

SpecMigrate == InitMigrate /\ [][NextMigrate]_vars

\* --- SpecMigrateTo: the rows of the table s of class S are migrated to the table t of
\* class T, with and without a migration function, with every choice of the options;
\* s holds up to MaxRows rows, t exists or not.
InitMigrateTo ==
    /\ max_size = [c \in Classes |-> None]
    /\ _base_pool = "None"
    /\ table = [c \in Classes |-> {}]
    /\ cache = [c \in Classes |-> <<>>]
    /\ lock = [c \in Classes |-> Free]
    /\ pc = [t \in AllTasks |-> "idle"]
    /\ call = [t \in AllTasks |-> NoCall]
    /\ ret = [t \in AllTasks |-> NoRet]
    /\ \E from \in Lists(ColumnNames, MaxColumns) \ {<<>>},
          to \in Lists(ColumnNames, MaxColumns) \ {<<>>},
          n \in 0..MaxRows, there \in BOOLEAN :
          /\ declared = [c \in SchemaClasses |->
                           IF c = "S" THEN [_name |-> "s", columns |-> Fresh(from)]
                           ELSE [_name |-> "t", columns |-> Fresh(to)]]
          /\ _columns = [c \in SchemaClasses |->
                           Declared(c, Fresh(IF c = "S" THEN from ELSE to))]
          /\ live = [name \in TableNames |->
                       IF name = "s"
                       THEN [exists |-> TRUE, columns |-> from,
                             rows |-> [i \in 1..n |-> [x \in Range(from) |-> i]]]
                       ELSE IF there
                       THEN [exists |-> TRUE, columns |-> to, rows |-> <<>>]
                       ELSE Absent]
    /\ ddl = NoDone
    /\ NoCustomTypes

NextMigrateTo ==
    \E migration \in {"MISSING", "fn"}, create_new_table \in BOOLEAN,
       drop_table \in BOOLEAN, with_transaction \in BOOLEAN :
        /\ ddl.op = "none"
        /\ CallMigrateTo("S", "T", migration, create_new_table, drop_table,
                         with_transaction)

SpecMigrateTo == InitMigrateTo /\ [][NextMigrateTo]_vars

\* Every order of the column names.
ColumnOrders == {s \in Lists(ColumnNames, Len(ColumnNames)) : Len(s) = Len(ColumnNames)}

\* Every declaration of up to max columns: their names in any order, any of them
\* flagged primary_key, any of them flagged unique.
Declarations(max) ==
    {[i \in DOMAIN names |-> Column(names[i], names[i] \in pk, names[i] \in uq, "MISSING")] :
        names \in Lists(ColumnNames, max), pk \in SUBSET Range(ColumnNames),
        uq \in SUBSET Range(ColumnNames)}

\* --- SpecCreate: a Table class S of any declaration is created, with every choice of
\* the options, and dropped.
InitCreate ==
    /\ max_size = [c \in Classes |-> None]
    /\ _base_pool = "None"
    /\ table = [c \in Classes |-> {}]
    /\ cache = [c \in Classes |-> <<>>]
    /\ lock = [c \in Classes |-> Free]
    /\ pc = [t \in AllTasks |-> "idle"]
    /\ call = [t \in AllTasks |-> NoCall]
    /\ ret = [t \in AllTasks |-> NoRet]
    /\ \E columns \in Declarations(MaxColumns) :
          /\ declared = [c \in SchemaClasses |->
                           IF c = "S" THEN [_name |-> "s", columns |-> columns]
                           ELSE [_name |-> "", columns |-> <<>>]]
          /\ _columns = [c \in SchemaClasses |->
                           IF c = "S" THEN Declared("S", columns) ELSE <<>>]
    /\ live = [n \in TableNames |-> Absent]
    /\ ddl = NoDone
    /\ NoCustomTypes

NextCreate ==
    \/ \E if_not_exists \in BOOLEAN, create_schema \in BOOLEAN,
          automatic_migrations \in BOOLEAN, order \in ColumnOrders :
          CallCreate("S", if_not_exists, create_schema, automatic_migrations, order)
    \/ CallDrop("S")

SpecCreate == InitCreate /\ [][NextCreate]_vars

\* What generate_alias may return.
Aliases == {"p", "q"}

JoinMethods == {"inner_join", "left_join", "right_join", "full_outer_join"}

\* --- SpecJoin: the Table classes S and T, of any declarations, are joined by each of
\* the four methods, and the Join is joined again, on either side, with T.
InitJoin ==
    /\ max_size = [c \in Classes |-> None]
    /\ _base_pool = "None"
    /\ table = [c \in Classes |-> {}]
    /\ cache = [c \in Classes |-> <<>>]
    /\ lock = [c \in Classes |-> Free]
    /\ pc = [t \in AllTasks |-> "idle"]
    /\ call = [t \in AllTasks |-> NoCall]
    /\ ret = [t \in AllTasks |-> NoRet]
    /\ \E left \in Lists(ColumnNames, MaxColumns) \ {<<>>},
          right \in Lists(ColumnNames, MaxColumns) \ {<<>>} :
          /\ declared = [c \in SchemaClasses |->
                           IF c = "S" THEN [_name |-> "s", columns |-> Fresh(left)]
                           ELSE [_name |-> "t", columns |-> Fresh(right)]]
          /\ _columns = [c \in SchemaClasses |->
                           Declared(c, Fresh(IF c = "S" THEN left ELSE right))]
    /\ live = [n \in TableNames |-> Absent]
    /\ ddl = NoDone
    /\ NoCustomTypes

NextJoin ==
    \E method \in JoinMethods, alias \in Aliases, generated_a \in Aliases,
       generated_b \in Aliases :
        \/ /\ ddl.op = "none"
           /\ CallJoin(method, "J1", Source("S"), Source("T"), alias, generated_a,
                       generated_b)
        \/ /\ ddl.op \in JoinMethods /\ ddl.columns.id = "J1"
           /\ generated_a = generated_b    \* one alias is generated, for T
           /\ \/ CallJoin(method, "J2", ddl.columns, Source("T"), alias, generated_a,
                          generated_b)
              \/ CallJoin(method, "J2", Source("T"), ddl.columns, alias, generated_a,
                          generated_b)

SpecJoin == InitJoin /\ [][NextJoin]_vars

\* --- SpecAuto: the Table class S, of any declaration, is created with every choice
\* of the options while its table s does not exist or exists with any columns, with
\* or without a row; it is created again and dropped.
InitAuto ==
    /\ max_size = [c \in Classes |-> None]
    /\ _base_pool = "None"
    /\ table = [c \in Classes |-> {}]
    /\ cache = [c \in Classes |-> <<>>]
    /\ lock = [c \in Classes |-> Free]
    /\ pc = [t \in AllTasks |-> "idle"]
    /\ call = [t \in AllTasks |-> NoCall]
    /\ ret = [t \in AllTasks |-> NoRet]
    /\ \E names \in Lists(ColumnNames, MaxColumns) \ {<<>>} :
          /\ declared = [c \in SchemaClasses |->
                           IF c = "S" THEN [_name |-> "s", columns |-> Fresh(names)]
                           ELSE [_name |-> "", columns |-> <<>>]]
          /\ _columns = [c \in SchemaClasses |->
                           IF c = "S" THEN Declared("S", Fresh(names)) ELSE <<>>]
    /\ \E there \in Lists(ColumnNames, MaxColumns) \ {<<>>}, n \in 0..1, exists \in BOOLEAN :
          live = [name \in TableNames |->
                    IF name = "s" /\ exists
                    THEN [exists |-> TRUE, columns |-> there,
                          rows |-> [i \in 1..n |-> [x \in Range(there) |-> 1]]]
                    ELSE Absent]
    /\ ddl = NoDone
    /\ NoCustomTypes

NextAuto ==
    \/ \E if_not_exists \in BOOLEAN, create_schema \in BOOLEAN,
          automatic_migrations \in BOOLEAN, order \in ColumnOrders :
          CallCreate("S", if_not_exists, create_schema, automatic_migrations, order)
    \/ CallDrop("S")

SpecAuto == InitAuto /\ [][NextAuto]_vars

\* ------------------------------------------------------------------ class scan
\* A field name of a class body is the sequence of its characters.
\* str.startswith
StartsWith(s, prefix) == Len(s) >= Len(prefix) /\ SubSeq(s, 1, Len(prefix)) = prefix

\* str.endswith
EndsWith(s, suffix) ==
    Len(s) >= Len(suffix) /\ SubSeq(s, Len(s) - Len(suffix) + 1, Len(s)) = suffix

\* s[lo:hi]: a negative index counts from the end, and both are clipped to the string.
Slice(s, lo, hi) ==
    LET at(i) == IF i < 0 THEN (IF Len(s) + i < 0 THEN 0 ELSE Len(s) + i)
                 ELSE IF i > Len(s) THEN Len(s) ELSE i
    IN  SubSeq(s, at(lo) + 1, at(hi))

\* What a scan leaves of a class: its columns, or the exception it raised.
Scanned(op, c, columns, err) ==
    /\ ddl.op = "none"
    /\ _columns' = [_columns EXCEPT ![c] = columns]
    /\ ddl' = [NoDone EXCEPT !.op = op, !.cls = c, !.err = err]
    /\ UNCHANGED <<conf, custom, declared, live, table, cache, lock, pc, call, ret>>

\* Selectable.__init_subclass__ with Insertable._setup_column: every annotation whose
\* name does not start with "_" becomes a column of the class.
__init_subclass__(c) ==
    Scanned("__init_subclass__", c,
            Declared(c, SelectSeq(declared[c].columns,
                                  LAMBDA column : ~StartsWith(column.name, <<"_">>))),
            "")

\* FetchableMeta.__new__: an annotation with a leading underscore is ignored; the
\* class is not made when a name is invalid.
FetchableMeta__new__(c) ==
    LET fields == SelectSeq(declared[c].columns, LAMBDA column : column.name[1] # "_")
    IN  IF \E i \in DOMAIN fields :
              \/ StartsWith(fields[i].name, <<"o", "r", "_">>)
              \/ Slice(fields[i].name, -4, -2) = <<"_", "_">>
        THEN Scanned("FetchableMeta.__new__", c, <<>>, "NameError")
        ELSE Scanned("FetchableMeta.__new__", c, Declared(c, fields), "")

\* No task is in a call and no class has a cache.
NoTasks ==
    /\ max_size = [c \in Classes |-> None]
    /\ _base_pool = "None"
    /\ table = [c \in Classes |-> {}]
    /\ cache = [c \in Classes |-> <<>>]
    /\ lock = [c \in Classes |-> Free]
    /\ pc = [t \in AllTasks |-> "idle"]
    /\ call = [t \in AllTasks |-> NoCall]
    /\ ret = [t \in AllTasks |-> NoRet]

\* --- SpecScan: the class S is declared with up to MaxFields annotations of these
\* names (a, b, _a, a_b, or_a, a__eq, a__lt, a__in, a__like, a__ilike) and scanned, by
\* Selectable.__init_subclass__ or by FetchableMeta.__new__.
FieldNames ==
    <<  <<"a">>, <<"b">>, <<"_", "a">>, <<"a", "_", "b">>, <<"o", "r", "_", "a">>,
        <<"a", "_", "_", "e", "q">>, <<"a", "_", "_", "l", "t">>,
        <<"a", "_", "_", "i", "n">>, <<"a", "_", "_", "l", "i", "k", "e">>,
        <<"a", "_", "_", "i", "l", "i", "k", "e">>  >>

InitScan ==
    /\ NoTasks
    /\ \E names \in Lists(FieldNames, MaxFields) :
          declared = [c \in SchemaClasses |->
                        IF c = "S" THEN [_name |-> "s", columns |-> Fresh(names)]
                        ELSE [_name |-> "", columns |-> <<>>]]
    /\ _columns = [c \in SchemaClasses |-> <<>>]
    /\ live = [n \in TableNames |-> Absent]
    /\ ddl = NoDone
    /\ NoCustomTypes

NextScan ==
    \/ __init_subclass__("S")
    \/ FetchableMeta__new__("S")

SpecScan == InitScan /\ [][NextScan]_vars

\* ------------------------------------------------------------------ column binding
\* The resolved types of the columns that are bound, and the Python type of each.
BindTypes == {"Integer", "BigInt", "Text"}

_python == [Integer |-> "int", BigInt |-> "int", Serial |-> "int", Text |-> "str"]

\* A column as Column(...) and its annotation give it: references is <<>> for None
\* or holds the column it references, which is bound already.
Field(type, is_array, auto_increment, references) ==
    [name |-> "a", type |-> type, is_array |-> is_array, auto_increment |-> auto_increment,
     references |-> references, table |-> "MISSING"]

\* The column of class c as the binding of its one declared field leaves it.
Bound(op, c, column, err) ==
    /\ ddl.op = "none"
    /\ _columns' = [_columns EXCEPT ![c] = IF err = "" THEN <<[column EXCEPT !.table = c]>>
                                          ELSE <<>>]
    /\ ddl' = [NoDone EXCEPT !.op = op, !.cls = c, !.err = err]
    /\ UNCHANGED <<conf, custom, declared, live, table, cache, lock, pc, call, ret>>

\* Insertable._setup_column: the resolved type is stored in the column, the column is
\* named, attached and entered in cls._columns_dict; column.references is not read.
\* Column takes no auto_increment option.
_setup_column(c) ==
    /\ ~declared[c].columns[1].auto_increment
    /\ Bound("_setup_column", c, declared[c].columns[1], "")

\* _Column._update(table, name, sqltype, is_array)
_update(c) ==
    LET self == declared[c].columns[1]
    IN  IF /\ self.references # <<>>
           /\ self.type # self.references[1].type
           /\ (~self.references[1].auto_increment \/ _python[self.type] # "int")
        THEN Bound("_update", c, self, "AttributeError")
        ELSE IF self.auto_increment
        THEN IF _python[self.type] = "int"
             THEN Bound("_update", c, [self EXCEPT !.type = "Serial"], "")
             ELSE Bound("_update", c, self, "TypeError")
        ELSE Bound("_update", c, self, "")

\* --- SpecBind: the class T has one bound column, of any type, an array or not,
\* auto-increment (and then SERIAL) or not; the class S declares one column of any
\* type that references it or references nothing, and the column is bound.
BoundTargets ==
    {[Field(type, is_array, FALSE, <<>>) EXCEPT !.table = "T"] :
        type \in BindTypes, is_array \in BOOLEAN}
    \cup {[Field("Serial", is_array, TRUE, <<>>) EXCEPT !.table = "T"] :
            is_array \in BOOLEAN}

InitBind ==
    /\ NoTasks
    /\ \E target \in BoundTargets, type \in BindTypes, is_array \in BOOLEAN,
          auto_increment \in BOOLEAN, referencing \in BOOLEAN :
          /\ declared = [c \in SchemaClasses |->
                           IF c = "S"
                           THEN [_name |-> "s",
                                 columns |-> <<Field(type, is_array, auto_increment,
                                                     IF referencing THEN <<target>> ELSE <<>>)>>]
                           ELSE [_name |-> "t", columns |-> <<target>>]]
          /\ _columns = [c \in SchemaClasses |-> IF c = "T" THEN <<target>> ELSE <<>>]
    /\ live = [n \in TableNames |-> Absent]
    /\ ddl = NoDone
    /\ NoCustomTypes

NextBind ==
    \/ _setup_column("S")
    \/ _update("S")

SpecBind == InitBind /\ [][NextBind]_vars

\* ------------------------------------------------------------------ custom types
\* E and F are EnumType classes with one member x; their names are "e" and "f". One
\* pool made by create_pool is in consts.POOLS and holds one connection.
CustomNames == {"e", "f"}

\* EnumType._query_create(if_not_exists): the statement has no IF NOT EXISTS form.
_query_create_type(c) == <<"CREATE TYPE", c, "AS ENUM (", "'x'", ")">>

\* Creatable._query_drop of a class whose _type is TYPE.
_query_drop_type(c, if_exists, cascade) ==
    <<"DROP", "TYPE">> \o (IF if_exists THEN <<"IF EXISTS">> ELSE <<>>) \o <<c>>
        \o (IF cascade THEN <<"CASCADE">> ELSE <<>>)

\* connection.execute of a custom type's statement: fault is the error the database
\* raises for a reason of its own ("" for none), as when the role may not create
\* types.
RunType(types, query, fault) ==
    IF fault # "" THEN [pg_type |-> types, err |-> fault]
    ELSE IF query[1] = "CREATE TYPE"
    THEN IF query[2] \in types THEN [pg_type |-> types, err |-> "DuplicateObjectError"]
         ELSE [pg_type |-> types \cup {query[2]}, err |-> ""]
    ELSE IF query[1] = "DROP" /\ query[2] = "TYPE"
    THEN IF query[3] = "IF EXISTS" THEN [pg_type |-> types \ {query[4]}, err |-> ""]
         ELSE IF query[3] \in types THEN [pg_type |-> types \ {query[3]}, err |-> ""]
         ELSE [pg_type |-> types, err |-> "UndefinedObjectError"]
    ELSE [pg_type |-> types, err |-> "PostgresSyntaxError"]

\* A create that suppresses every database error when if_not_exists is set.
CustomType_create_AnyError(st, c, if_not_exists, fault) ==
    LET res == RunType(st.pg_type, _query_create_type(c), fault)
        sent == <<_query_create_schema(TRUE), _query_create_type(c)>>
    IN  IF res.err # "" /\ ~if_not_exists
        THEN [st EXCEPT !.raised = res.err, !.err = res.err, !.sent = sent]
        ELSE [st EXCEPT !.pg_type = res.pg_type, !.raised = res.err, !.sent = sent,
                        !.codecs = @ \cup {c}, !.CUSTOM_TYPES = @ \cup {c}]

\* CustomType.create(connection, if_not_exists=): Creatable.create is called without
\* if_not_exists, so with its default; it creates the schema and executes the
\* statement. st is the state the call starts in, raised what the database raised and
\* err what the call raises.
CustomType_create(st, c, if_not_exists, fault) ==
    LET res == RunType(st.pg_type, _query_create_type(c), fault)
        sent == <<_query_create_schema(TRUE), _query_create_type(c)>>
    IN  IF res.err # "" /\ (res.err # "DuplicateObjectError" \/ ~if_not_exists)
        THEN [st EXCEPT !.raised = res.err, !.err = res.err, !.sent = sent]
        ELSE [st EXCEPT !.pg_type = res.pg_type, !.raised = res.err, !.sent = sent,
                        !.codecs = @ \cup {c}, !.CUSTOM_TYPES = @ \cup {c}]

\* CustomType.drop(connection): unregister, then Creatable.drop with its defaults,
\* then the registry entry is popped.
CustomType_drop(st, c, fault) ==
    LET res == RunType(st.pg_type, _query_drop_type(c, TRUE, FALSE), fault)
        sent == <<_query_drop_type(c, TRUE, FALSE)>>
    IN  IF res.err # ""
        THEN [st EXCEPT !.codecs = @ \ {c}, !.raised = res.err, !.err = res.err,
                        !.sent = sent]
        ELSE [st EXCEPT !.codecs = @ \ {c}, !.pg_type = res.pg_type, !.sent = sent,
                        !.CUSTOM_TYPES = @ \ {c}]

\* The state a custom type's operation starts in, and the call's record of what it
\* did: before is the registry as the call found it.
StartType ==
    [CUSTOM_TYPES |-> CUSTOM_TYPES, pg_type |-> pg_type, codecs |-> codecs,
     raised |-> "", err |-> "", sent |-> <<>>]

CalledType(op, c, flags, st) ==
    /\ CUSTOM_TYPES' = st.CUSTOM_TYPES
    /\ pg_type' = st.pg_type
    /\ codecs' = st.codecs
    /\ ddl' = [op |-> op, cls |-> c, flags |-> flags, raised |-> st.raised,
               err |-> st.err, sent |-> st.sent, before |-> CUSTOM_TYPES,
               existed |-> c \in pg_type]
    /\ UNCHANGED <<conf, _holders, declared, _columns, live, table, cache, lock, pc, call,
                   ret>>

CallCreateType(c, if_not_exists, fault) ==
    CalledType("CustomType.create", c,
               IF if_not_exists THEN {"if_not_exists"} ELSE {},
               CustomType_create(StartType, c, if_not_exists, fault))

CallDropType(c, fault) ==
    CalledType("CustomType.drop", c, {}, CustomType_drop(StartType, c, fault))

\* --- SpecCustomType: the types E and F are created and dropped in any order, with
\* and without if_not_exists, on a database that has any of them already and that
\* may refuse a statement.
TypeFaults == {"", "InsufficientPrivilegeError"}

InitCustomType ==
    /\ NoTasks
    /\ declared = [c \in SchemaClasses |-> [_name |-> "", columns |-> <<>>]]
    /\ _columns = [c \in SchemaClasses |-> <<>>]
    /\ live = [n \in TableNames |-> Absent]
    /\ ddl = NoDone
    /\ CUSTOM_TYPES = {}
    /\ pg_type \in SUBSET CustomNames
    /\ codecs = {}
    /\ _holders = [h \in 1..MaxPool |-> Free]

NextCustomType ==
    \/ \E c \in CustomNames, if_not_exists \in BOOLEAN, fault \in TypeFaults :
          CallCreateType(c, if_not_exists, fault)
    \/ \E c \in CustomNames, fault \in TypeFaults : CallDropType(c, fault)

SpecCustomType == InitCustomType /\ [][NextCustomType]_vars

\* ------------------------------------------------------------------ optional connections
\* A call of an operation decorated with optional_pool, as the pool sees it:
\* connection is what the caller gave ("None" or "conn"), using the connection the
\* body runs on, _cleanup MaybeAcquire's flag, acquired and released the number of
\* pool.acquire() and pool.release() calls made for it, ran whether the decorated
\* function was entered, inner whether the body has made its call of another
\* decorated operation, raised whether the body raised.
NoPoolCall ==
    [op |-> "none", cls |-> "", connection |-> "None", kwargs |-> NoKwargs,
     using |-> "None", _cleanup |-> FALSE, acquired |-> 0, released |-> 0, ran |-> FALSE,
     inner |-> FALSE, raised |-> FALSE]

NoPoolRet == [cl |-> NoPoolCall, status |-> "none", err |-> "", src |-> ""]

\* The call returns or raises; `async with cls._lock` releases the lock.
PoolDone(t, cl, status, err, src) ==
    /\ ret' = [ret EXCEPT ![t] = [cl |-> cl, status |-> status, err |-> err, src |-> src]]
    /\ pc' = [pc EXCEPT ![t] = "idle"]
    /\ call' = [call EXCEPT ![t] = NoPoolCall]
    /\ lock' = IF NeedsLock(cl) THEN [lock EXCEPT ![LockOf(cl.cls)] = Free] ELSE lock

\* optional_pool's wrapped: a connection that was given is handed to the function;
\* without one and without a pool RuntimeError is raised; else the connection is
\* awaited from the pool in MaybeAcquire.__aenter__.
wrapped(t, cl) ==
    IF cl.connection # "None"
    THEN /\ pc' = [pc EXCEPT ![t] = "body"]
         /\ call' = [call EXCEPT ![t] = [cl EXCEPT !.using = cl.connection, !.ran = TRUE]]
         /\ lock' = IF NeedsLock(cl) THEN [lock EXCEPT ![LockOf(cl.cls)] = t] ELSE lock
         /\ UNCHANGED <<ret, _holders>>
    ELSE IF _base_pool = "None"
    THEN PoolDone(t, cl, "err", "RuntimeError", "") /\ UNCHANGED _holders
    ELSE /\ pc' = [pc EXCEPT ![t] = "acquire"]
         /\ call' = [call EXCEPT ![t] = [cl EXCEPT !._cleanup = TRUE]]
         /\ lock' = IF NeedsLock(cl) THEN [lock EXCEPT ![LockOf(cl.cls)] = t] ELSE lock
         /\ UNCHANGED <<ret, _holders>>

\* The call from the lock's acquisition up to its first await: CachedTable's
\* fetch_row_where returns a cached row without calling the decorated operation.
PoolBegin(t, cl) ==
    /\ IF NeedsLock(cl) /\ get_cached(cl.cls, cl.kwargs) # <<>>
       THEN PoolDone(t, cl, "ok", "", "cache") /\ UNCHANGED _holders
       ELSE wrapped(t, cl)
    /\ UNCHANGED <<conf, schema, CUSTOM_TYPES, pg_type, codecs, table, cache>>

PoolCall(t, cl) ==
    /\ pc[t] = "idle"
    /\ IF NeedsLock(cl) /\ lock[LockOf(cl.cls)] # Free
       THEN /\ pc' = [pc EXCEPT ![t] = "wait"]
            /\ call' = [call EXCEPT ![t] = cl]
            /\ UNCHANGED <<conf, schema, custom, table, cache, lock, ret>>
       ELSE PoolBegin(t, cl)

PoolLocked(t) ==
    /\ pc[t] = "wait"
    /\ lock[LockOf(call[t].cls)] = Free
    /\ PoolBegin(t, call[t])

\* MaybeAcquire.__aenter__: pool.acquire() returns when a connection is free.
__aenter__(t) ==
    /\ pc[t] = "acquire"
    /\ \E h \in DOMAIN _holders :
          /\ _holders[h] = Free
          /\ _holders' = [_holders EXCEPT ![h] = t]
          /\ call' = [call EXCEPT ![t].using = h, ![t].acquired = @ + 1, ![t].ran = TRUE]
    /\ pc' = [pc EXCEPT ![t] = "body"]
    /\ UNCHANGED <<conf, schema, CUSTOM_TYPES, pg_type, codecs, table, cache, lock, ret>>

\* update_record's body calls cls.update_where(connection, ...): the connection it
\* passes is not None, so wrapped hands it on.
PoolInner(t) ==
    /\ pc[t] = "body"
    /\ call[t].op = "update_record"
    /\ ~call[t].inner
    /\ call' = [call EXCEPT ![t].inner = TRUE]
    /\ UNCHANGED <<conf, schema, custom, table, cache, lock, pc, ret>>

\* A MaybeAcquire that releases the connection only when the body returned.
__aexit___OnReturn(cl) == cl._cleanup /\ ~cl.raised

\* MaybeAcquire.__aexit__: whether the connection is released to the pool.
__aexit__(cl) == cl._cleanup

\* The decorated function returns or raises; inside `async with MaybeAcquire` the
\* exit follows.
PoolBody(t, raised) ==
    /\ pc[t] = "body"
    /\ call[t].op = "update_record" => (call[t].inner \/ raised)
    /\ IF call[t]._cleanup
       THEN /\ pc' = [pc EXCEPT ![t] = "exit"]
            /\ call' = [call EXCEPT ![t].raised = raised]
            /\ UNCHANGED <<lock, ret>>
       ELSE PoolDone(t, call[t], IF raised THEN "err" ELSE "ok",
                     IF raised THEN "PostgresError" ELSE "", "db")
    /\ UNCHANGED <<conf, schema, custom, table, cache>>

PoolExit(t) ==
    /\ pc[t] = "exit"
    /\ LET cl == call[t]
           release == __aexit__(cl)
           cl2 == IF release THEN [cl EXCEPT !.released = @ + 1] ELSE cl
       IN  /\ _holders' = IF release THEN [_holders EXCEPT ![cl.using] = Free] ELSE _holders
           /\ PoolDone(t, cl2, IF cl.raised THEN "err" ELSE "ok",
                       IF cl.raised THEN "PostgresError" ELSE "", "db")
    /\ UNCHANGED <<conf, schema, CUSTOM_TYPES, pg_type, codecs, table, cache>>

\* --- SpecPool: two tasks call fetch_row and update_record of the plain Table U and
\* fetch_row_where of the CachedTable A, with and without a connection; the classes
\* have a pool of MaxPool connections or none; the row with key 1 is cached or not.
PoolCalls ==
    {[NoPoolCall EXCEPT !.op = op, !.cls = "U", !.connection = connection] :
        op \in {"fetch_row", "update_record"}, connection \in {"None", "conn"}}
    \cup {[NoPoolCall EXCEPT !.op = "fetch_row_where", !.cls = "A",
                             !.connection = connection, !.kwargs = [a |-> k]] :
            connection \in {"None", "conn"}, k \in {1, 2}}

InitPool ==
    /\ max_size = [c \in Classes |-> None]
    /\ _base_pool \in {"None", "pool"}
    /\ table = [c \in Classes |-> IF c = "A" THEN {[a |-> 1, b |-> None]} ELSE {}]
    /\ cache \in {[c \in Classes |-> IF c = "A" THEN d ELSE <<>>] :
                    d \in {<<>>, <<[key |-> <<1>>, rec |-> [a |-> 1, b |-> None]]>>}}
    /\ lock = [c \in Classes |-> Free]
    /\ pc = [t \in AllTasks |-> "idle"]
    /\ call = [t \in AllTasks |-> NoPoolCall]
    /\ ret = [t \in AllTasks |-> NoPoolRet]
    /\ NoSchema

NextPool ==
    \/ \E t \in AllTasks, cl \in PoolCalls : PoolCall(t, cl)
    \/ \E t \in AllTasks : PoolLocked(t)
    \/ \E t \in AllTasks : __aenter__(t)
    \/ \E t \in AllTasks : PoolInner(t)
    \/ \E t \in AllTasks, raised \in BOOLEAN : PoolBody(t, raised)
    \/ \E t \in AllTasks : PoolExit(t)

SpecPool == InitPool /\ [][NextPool]_vars

\* --- SpecAlter: as SpecMigrate, but the table s of the class S is in the database
\* or not (S.create was not called, or the table was dropped by hand), so that an
\* ALTER TABLE statement can fail.
InitAlter ==
    /\ max_size = [c \in Classes |-> None]
    /\ _base_pool = "None"
    /\ table = [c \in Classes |-> {}]
    /\ cache = [c \in Classes |-> <<>>]
    /\ lock = [c \in Classes |-> Free]
    /\ pc = [t \in AllTasks |-> "idle"]
    /\ call = [t \in AllTasks |-> NoCall]
    /\ ret = [t \in AllTasks |-> NoRet]
    /\ \E names \in Lists(ColumnNames, MaxColumns) \ {<<>>}, exists \in BOOLEAN :
          /\ declared = [c \in SchemaClasses |->
                           IF c = "S" THEN [_name |-> "s", columns |-> Fresh(names)]
                           ELSE [_name |-> "", columns |-> <<>>]]
          /\ _columns = [c \in SchemaClasses |->
                           IF c = "S" THEN Declared("S", Fresh(names)) ELSE <<>>]
          /\ live = [n \in TableNames |->
                       IF n = "s" /\ exists
                       THEN [exists |-> TRUE, columns |-> names,
                             rows |-> <<[x \in Range(names) |-> 1]>>]
                       ELSE Absent]
    /\ ddl = NoDone
    /\ NoCustomTypes

SpecAlter == InitAlter /\ [][NextMigrate]_vars

\* --- SpecFetchWhere: one task on the CachedTable class B, declared without
\* max_cache_size or with one: fetches by key, by b and of every row, between
\* inserts, updates, deletes and cache clears.
InitFetchWhere ==
    \E n \in {None} \cup (1..MaxCacheSize) :
        InitWith([c \in Classes |-> IF c = "B" THEN n ELSE None])

FetchWhereCalls ==
    LET KW == {NoKwargs, [b |-> None]} \cup {[a |-> k] : k \in Keys}
    IN  Calls({"B"}, KW, {[a |-> k] : k \in Keys} \cup {[a |-> k, b |-> 1] : k \in Keys},
              {[b |-> 1], [b |-> None]}, {"b"}, {"", "update"})

NextFetchWhere ==
    \E t \in {"t1"} :
        \/ \E cl \in FetchWhereCalls : Call(t, cl)
        \/ DbReply(t)
        \/ clear_cache(t, "B")

SpecFetchWhere == InitFetchWhere /\ [][NextFetchWhere]_vars

\* ------------------------------------------------------------------ type resolution
\* Rows of the table the SQLType classes are generated from, in its order: for each a
\* class name with sql_type and a class name[] with sql_type[] are made, both with
\* the row's default flag.
SQLTypeConfig ==
    <<[name |-> "Integer", py_type |-> "int", sql_type |-> "INTEGER", is_default |-> TRUE],
      [name |-> "BigInt", py_type |-> "int", sql_type |-> "BIGINT", is_default |-> FALSE],
      [name |-> "Float", py_type |-> "float", sql_type |-> "FLOAT", is_default |-> TRUE],
      [name |-> "DoublePrecision", py_type |-> "float", sql_type |-> "DOUBLE PRECISION",
       is_default |-> FALSE],
      [name |-> "Money", py_type |-> "str", sql_type |-> "MONEY", is_default |-> FALSE],
      [name |-> "Text", py_type |-> "str", sql_type |-> "TEXT", is_default |-> TRUE],
      [name |-> "Timestamp", py_type |-> "datetime", sql_type |-> "TIMESTAMP",
       is_default |-> TRUE],
      [name |-> "AwareTimestamp", py_type |-> "datetime",
       sql_type |-> "TIMESTAMP WITH TIME ZONE", is_default |-> TRUE],
      [name |-> "Inet", py_type |-> "_BaseNetwork", sql_type |-> "INET", is_default |-> FALSE]>>

\* The row of the class SQLType.<name>.
ConfigOf(name) == CHOOSE i \in DOMAIN SQLTypeConfig : SQLTypeConfig[i].name = name

\* SQLType.__init_subclass__: cls.__defaults[cls.py_type] = cls for a default class,
\* so the last default row of a Python type is its entry: the row's index, or 0.
__defaults(py_type) ==
    LET rows == {i \in DOMAIN SQLTypeConfig :
                    SQLTypeConfig[i].py_type = py_type /\ SQLTypeConfig[i].is_default}
    IN  IF rows = {} THEN 0 ELSE CHOOSE i \in rows : \A j \in rows : j <= i

\* SQLType._from_type(py_type), or (list[py_type]) when is_array: the entry of the
\* registry, the class generated with [] for a list; KeyError without an entry.
_from_type(is_array, py_type) ==
    LET i == __defaults(py_type)
    IN  IF i = 0 THEN [err |-> "KeyError", sql_type |-> ""]
        ELSE [err |-> "", sql_type |-> IF is_array THEN SQLTypeConfig[i].sql_type \o "[]"
                                       ELSE SQLTypeConfig[i].sql_type]

\* An annotation Column[T] or Column[list[T]]: T is a Python type (named FALSE) or
\* the class SQLType.<type>.
Annotation(is_array, named, type) == [is_array |-> is_array, named |-> named, type |-> type]

\* The type Insertable._setup_column resolves the annotation to.
ResolvedType(annotation) ==
    IF ~annotation.named THEN _from_type(annotation.is_array, annotation.type)
    ELSE IF annotation.is_array
    THEN _from_type(TRUE, SQLTypeConfig[ConfigOf(annotation.type)].py_type)
    ELSE [err |-> "", sql_type |-> SQLTypeConfig[ConfigOf(annotation.type)].sql_type]

\* Insertable._setup_column for the next annotation of the class: the column gets
\* the resolved type and is entered in cls._columns_dict; an exception ends the
\* creation of the class.
SetupColumnType(c) ==
    LET i == Len(_columns[c]) + 1
        type == ResolvedType(declared[c].columns[i])
    IN  /\ ddl.err = ""
        /\ i \in DOMAIN declared[c].columns
        /\ _columns' = IF type.err # "" THEN _columns
                       ELSE [_columns EXCEPT ![c] =
                               Append(@, [name |-> ColumnNames[i], table |-> c,
                                          _sql_type |-> type.sql_type])]
        /\ ddl' = [NoDone EXCEPT !.op = "_setup_column", !.cls = c, !.err = type.err]
        /\ UNCHANGED <<conf, custom, declared, live, table, cache, lock, pc, call, ret>>

\* --- SpecResolve: the class S is declared with up to MaxFields annotations, each a
\* Python type or an SQLType class, plain or a list of it, and its columns are set up
\* in turn.
Annotations ==
    {Annotation(is_array, FALSE, py_type) :
        is_array \in BOOLEAN, py_type \in {"int", "float", "str", "datetime"}}
    \cup {Annotation(is_array, TRUE, SQLTypeConfig[i].name) :
            is_array \in BOOLEAN, i \in DOMAIN SQLTypeConfig}

InitResolve ==
    /\ NoTasks
    /\ \E fields \in UNION {[1..n -> Annotations] : n \in 1..MaxFields} :
          declared = [c \in SchemaClasses |->
                        IF c = "S" THEN [_name |-> "s", columns |-> fields]
                        ELSE [_name |-> "", columns |-> <<>>]]
    /\ _columns = [c \in SchemaClasses |-> <<>>]
    /\ live = [n \in TableNames |-> Absent]
    /\ ddl = NoDone
    /\ NoCustomTypes

NextResolve == SetupColumnType("S")

SpecResolve == InitResolve /\ [][NextResolve]_vars

\* ------------------------------------------------------------------ lock discipline
\* What an operation of a CachedTable class awaits. The keyword and record
\* operations of Selectable and Insertable, which CachedTable inherits, call the
\* where operation of the class, the decorated one.
SelectableCallee == [fetch |-> "fetch_where", fetch_row |-> "fetch_row_where"]

InsertableCallee ==
    [update_record |-> "update_where", delete_record |-> "delete_where",
     delete |-> "delete_where"]

\* A fetch_value_where that asks the class for the row.
CachedCallee_Cls ==
    [fetch_where |-> "super.fetch_where", fetch_row_where |-> "super.fetch_row_where",
     fetch_value_where |-> "fetch_row_where", insert |-> "super.insert",
     update_where |-> "super.update_where", delete_where |-> "super.delete_where"]

\* The decorated operations await the operation of the base class, through super():
\* fetch_value_where awaits super().fetch_row_where.
CachedCallee ==
    [fetch_where |-> "super.fetch_where", fetch_row_where |-> "super.fetch_row_where",
     fetch_value_where |-> "super.fetch_row_where", insert |-> "super.insert",
     update_where |-> "super.update_where", delete_where |-> "super.delete_where"]

\* The operation op awaits, "" for an operation of the base class, which sends its
\* statement.
Callee(op) ==
    IF op \in DOMAIN SelectableCallee THEN SelectableCallee[op]
    ELSE IF op \in DOMAIN InsertableCallee THEN InsertableCallee[op]
    ELSE IF op \in DOMAIN CachedCallee THEN CachedCallee[op]
    ELSE ""

LiveOps == DOMAIN SelectableCallee \cup DOMAIN InsertableCallee \cup DOMAIN CachedCallee

\* A call in progress: stack holds the operations entered, outermost first, next the
\* decorated operation that waits for the lock, took the number of times the call
\* has acquired the lock.
NoLiveCall == [op |-> "none", cls |-> "", kwargs |-> NoKwargs, stack |-> <<>>, next |-> "",
               took |-> 0]

NoLiveRet == [op |-> "none", status |-> "none", err |-> "", took |-> 0]

\* The call goes on from the entry of op, holder being who has the lock of the
\* class: a decorated operation waits unless the lock is free; one that finds its row
\* in the cache returns; an operation of the base class sends its statement.
RECURSIVE Descend(_, _, _, _)
Descend(t, cl, op, holder) ==
    IF op \in LockedOps /\ holder # Free
    THEN [pc |-> "wait", cl |-> [cl EXCEPT !.next = op], holder |-> holder]
    ELSE LET entered == [cl EXCEPT !.stack = Append(@, op), !.next = "",
                                   !.took = IF op \in LockedOps THEN @ + 1 ELSE @]
             holder2 == IF op \in LockedOps THEN t ELSE holder
         IN  IF op \in {"fetch_row_where", "fetch_value_where"}
                /\ get_cached(cl.cls, cl.kwargs) # <<>>
             THEN [pc |-> "idle", cl |-> entered, holder |-> holder2]
             ELSE IF Callee(op) = ""
             THEN [pc |-> "db", cl |-> entered, holder |-> holder2]
             ELSE Descend(t, entered, Callee(op), holder2)

\* The call has returned or raised through every operation it entered: each
\* `async with cls._lock` it is in releases the lock.
Unwound(t, cl, holder) ==
    IF holder = t /\ \E i \in DOMAIN cl.stack : cl.stack[i] \in LockedOps THEN Free
    ELSE holder

LiveRet(cl, status, err) == [op |-> cl.op, status |-> status, err |-> err, took |-> cl.took]

\* The task goes on to where res says; a call that has ended is unwound.
LiveStep(t, res) ==
    /\ pc' = [pc EXCEPT ![t] = res.pc]
    /\ call' = [call EXCEPT ![t] = IF res.pc = "idle" THEN NoLiveCall ELSE res.cl]
    /\ ret' = [ret EXCEPT ![t] = IF res.pc = "idle" THEN LiveRet(res.cl, "ok", "")
                                 ELSE NoLiveRet]
    /\ lock' = [lock EXCEPT ![LockOf(res.cl.cls)] =
                  IF res.pc = "idle" THEN Unwound(t, res.cl, res.holder) ELSE res.holder]
    /\ UNCHANGED <<conf, schema, custom, table, cache>>

LiveCall(t, op, c, kwargs) ==
    /\ pc[t] = "idle"
    /\ LiveStep(t, Descend(t, [NoLiveCall EXCEPT !.op = op, !.cls = c, !.kwargs = kwargs],
                           op, lock[LockOf(c)]))

\* with_lock: `async with cls._lock` goes on when the lock is free.
LiveAcquire(t) ==
    /\ pc[t] = "wait"
    /\ lock[LockOf(call[t].cls)] = Free
    /\ LiveStep(t, Descend(t, call[t], call[t].next, Free))

\* The database answers the statement with the row of the key, with nothing, or
\* with an error; the decorated operation the call is in stores or removes the row
\* (insert raises on a reply without a row) and the call ends.
LiveReply(t, reply) ==
    /\ pc[t] = "db"
    /\ LET cl == call[t]
           c == cl.cls
           row == [a |-> cl.kwargs.a, b |-> None]
           locked == SelectSeq(cl.stack, LAMBDA op : op \in LockedOps)
           raised == reply = "raise" \/ (locked = <<"insert">> /\ reply = "none")
       IN  /\ cache' = [cache EXCEPT ![c] =
                          IF locked = <<>> \/ reply # "row" THEN @
                          ELSE IF locked[1] = "delete_where"
                          THEN DeleteAll(c, @, Objs(<<row>>))
                          ELSE StoreAll(c, max_size[c], @, Objs(<<row>>))]
           /\ ret' = [ret EXCEPT ![t] =
                        IF raised
                        THEN LiveRet(cl, "err", IF reply = "raise" THEN "PostgresError"
                                                ELSE "TypeError")
                        ELSE LiveRet(cl, "ok", "")]
           /\ lock' = [lock EXCEPT ![LockOf(c)] = Unwound(t, cl, @)]
    /\ pc' = [pc EXCEPT ![t] = "idle"]
    /\ call' = [call EXCEPT ![t] = NoLiveCall]
    /\ UNCHANGED <<conf, schema, custom, table>>

\* --- SpecLive: two tasks call every operation of the CachedTable class A, for the
\* row of key 1; asyncio wakes the waiters of a lock in turn and every database call
\* is answered.
InitLive ==
    /\ max_size = [c \in Classes |-> None]
    /\ _base_pool = "None"
    /\ table = [c \in Classes |-> {}]
    /\ cache = [c \in Classes |-> <<>>]
    /\ lock = [c \in Classes |-> Free]
    /\ pc = [t \in AllTasks |-> "idle"]
    /\ call = [t \in AllTasks |-> NoLiveCall]
    /\ ret = [t \in AllTasks |-> NoLiveRet]
    /\ NoSchema

NextLive ==
    \/ \E t \in AllTasks, op \in LiveOps : LiveCall(t, op, "A", [a |-> 1])
    \/ \E t \in AllTasks : LiveAcquire(t)
    \/ \E t \in AllTasks, reply \in {"row", "none", "raise"} : LiveReply(t, reply)

SpecLive ==
    /\ InitLive
    /\ [][NextLive]_vars
    /\ \A t \in AllTasks :
          /\ SF_vars(LiveAcquire(t))
          /\ WF_vars(\E reply \in {"row", "none", "raise"} : LiveReply(t, reply))

C2_LockPerClass ==
    LET Six == {"fetch_where", "fetch_row_where", "fetch_value_where",
                "insert", "update_where", "delete_where"}
        In(c) == {t \in AllTasks : pc[t] = "db" /\ call[t].cls = c /\ call[t].op \in Six}
    IN  /\ \A c \in CachedClasses : Cardinality(In(c)) <= 1
        /\ \A c \in CachedClasses : \A t \in In(c) : lock[c] = t
        /\ \A c \in Classes : lock[c] # Free => lock[c] \in In(c)
        /\ \A t \in AllTasks : pc[t] = "wait" => call[t].cls \in CachedClasses

\* C2 witness: one task is inside a locked operation of class A and holds A's lock,
\* the other task waits for that lock with a call on A.
C2_Witness ==
    \E t, u \in AllTasks :
        /\ pc[t] = "db" /\ call[t].cls = "A" /\ lock["A"] = t
        /\ pc[u] = "wait" /\ call[u].cls = "A"

\* ------------------------------------------------------------------ C3
\* C3: a fetch_row_where or fetch_value_where answered from the cache was given a
\* filter that is exactly the primary key and sent no query; one answered by the
\* database sent one query and its row is in the cache under its key when it returns.
C3_ExactKeyReads ==
    \A t \in AllTasks :
        LET r == ret[t]
        IN  (r.cls \in CachedClasses /\ r.op \in {"fetch_row_where", "fetch_value_where"}
                /\ r.status = "ok") =>
            /\ r.src = "cache" => (DOMAIN r.kwargs = Range(_primary_keys(r.cls)) /\ r.queries = 0)
            /\ r.src = "db" =>
                 /\ r.queries = 1
                 /\ \A i \in DOMAIN r.rows :
                      \E j \in DOMAIN cache[r.cls] :
                          /\ cache[r.cls][j].key = _get_primary_key_values(r.cls, r.rows[i].rec)
                          /\ cache[r.cls][j].rec = r.rows[i].rec

\* ------------------------------------------------------------------ C4
\* C4: a cache declared with max_cache_size, empty at first, never comes to hold more
\* entries than that; a call
\* that stores one row under a key the cache lacks appends it and, when the cache was
\* full, drops exactly the entry inserted earliest; a read (a get_cached or a fetch
\* answered from the cache) changes neither the entries nor their order.
C4_BoundedOldestOut ==
    [][LET KeySeq(d) == [i \in DOMAIN d |-> d[i].key]
           OneRow(t) == /\ pc[t] = "db" /\ pc'[t] = "idle"
                        /\ call[t].op \in {"insert", "fetch_row_where", "fetch_value_where"}
           Read(t) == pc[t] = "idle" /\ pc'[t] = "idle" /\ ret'[t] # ret[t]
           Fifo(c) == LET d == cache[c]
                          d2 == cache'[c]
                          new == CacheKeys(d2) \ CacheKeys(d)
                      IN  new # {} =>
                            \E k \in new :
                               KeySeq(d2) = IF Len(d) = max_size[c]
                                            THEN Append(Tail(KeySeq(d)), k)
                                            ELSE Append(KeySeq(d), k)
       IN  /\ \A c \in CachedClasses : max_size[c] # None => Len(cache'[c]) <= max_size[c]
           /\ \A t \in AllTasks :
                /\ (OneRow(t) /\ max_size[call[t].cls] # None) => Fifo(call[t].cls)
                /\ Read(t) => cache' = cache]_vars

\* C4 witness: an insert has just stored its row as the newest entry of a full bounded
\* cache while the table holds more rows than the cache may: an older entry is gone.
C4_Witness ==
    \E t \in AllTasks :
        /\ ret[t].op = "insert" /\ ret[t].status = "ok" /\ ret[t].cls = "B"
        /\ Len(cache["B"]) = max_size["B"]
        /\ Cardinality(table["B"]) > max_size["B"]
        /\ cache["B"][Len(cache["B"])].rec = ret[t].rows[1].rec

\* ------------------------------------------------------------------ C5
\* C5: every insert_many call on a CachedTable class, whatever rows and connection it
\* is given, raises the not-supported error (NotImplementedError), sends no statement
\* and leaves the table, the cache and the lock as they were.
C5_InsertManyRejected ==
    [][\A t \in AllTasks :
         (ret'[t].op = "insert_many" /\ ret'[t] # ret[t]) =>
            /\ ret'[t].status = "err" /\ ret'[t].err = "NotImplementedError"
            /\ ret'[t].queries = 0
            /\ UNCHANGED <<table, cache, lock, pc>>]_vars

\* C5 witness: insert_many was rejected while the cache held an entry and another
\* task's call held the class lock.
C5_Witness ==
    \E t \in AllTasks :
        /\ ret[t].op = "insert_many" /\ ret[t].err = "NotImplementedError"
        /\ ret[t].locked
        /\ cache["A"] # <<>>

\* ------------------------------------------------------------------ C6
\* C6: update_record(record, **values) on a table with primary key pk (p columns, k
\* values) hands the connection one UPDATE whose WHERE names the primary-key columns
\* with $1..$p, whose SET names the given columns with $p+1..$p+k, and whose arguments
\* are the record's primary-key values followed by the new values; the statement sets
\* exactly those columns of exactly the row with the record's primary key (or is
\* refused by the database, leaving the table as it was, when nothing is assigned or
\* the new key is null or taken); delete_record removes exactly that row; and
\* fetch_row(a=k) returns a row whose a is k when the table has one, else none.
C6_RecordStatements ==
    [][\A t \in AllTasks :
         LET cl == IF pc[t] = "sql" THEN call[t] ELSE call'[t]
             c == cl.cls
             pk == _primary_keys(c)
             p == Len(pk)
             k == Len(cl.assign)
             q == cl.query
             w == CHOOSE i \in DOMAIN q : q[i] = "WHERE"
             Columns(toks) == SelectSeq(toks, LAMBDA x : x \in _columns_dict)
             T == table[c]
             target == {r \in T : \A i \in 1..p : r[pk[i]] = cl.record[pk[i]]}
             New(r) == [n \in DOMAIN r |->
                          IF \E j \in 1..k : cl.assign[j][1] = n
                          THEN (CHOOSE it \in Range(cl.assign) : it[1] = n)[2] ELSE r[n]]
             T2 == (T \ target) \cup {New(r) : r \in target}
             Keys2 == {[i \in 1..p |-> r[pk[i]]] : r \in T2}
             allowed == /\ k >= 1
                        /\ Cardinality(Keys2) = Cardinality(T)
                        /\ \A key \in Keys2 : \A i \in 1..p : key[i] # None
         IN  /\ (pc[t] = "idle" /\ pc'[t] = "sql" /\ cl.op = "update_record") =>
                  /\ q[1] = "UPDATE" /\ q[2] = c
                  /\ Columns(SubSeq(q, w + 1, Len(q))) = pk
                  /\ Params(SubSeq(q, w + 1, Len(q))) = [i \in 1..p |-> i]
                  /\ Columns(SubSeq(q, 1, w - 1)) = [j \in 1..k |-> cl.assign[j][1]]
                  /\ Params(SubSeq(q, 1, w - 1)) = [j \in 1..k |-> p + j]
                  /\ cl.args = [i \in 1..(p + k) |->
                                  IF i <= p THEN cl.record[pk[i]] ELSE cl.assign[i - p][2]]
             /\ (pc[t] = "sql" /\ pc'[t] = "idle" /\ cl.op = "update_record") =>
                  /\ ret'[t].queries = 1
                  /\ ret'[t].status = "ok" <=> allowed
                  /\ table' = [table EXCEPT ![c] = IF allowed THEN T2 ELSE T]
             /\ (pc[t] = "sql" /\ pc'[t] = "idle" /\ cl.op = "delete_record") =>
                  /\ ret'[t].status = "ok" /\ ret'[t].queries = 1
                  /\ table' = [table EXCEPT ![c] = T \ target]
             /\ (pc[t] = "sql" /\ pc'[t] = "idle" /\ cl.op = "fetch_row") =>
                  LET match == {r \in T : r.a = cl.filter[1][2]}
                  IN  /\ ret'[t].status = "ok" /\ table' = table
                      /\ match = {} => ret'[t].rows = <<>>
                      /\ match # {} => /\ Len(ret'[t].rows) = 1
                                       /\ ret'[t].rows[1].rec \in match]_vars

\* C6 witness: update_record on a fetched record of a table with another row has set
\* two columns with $2 and $3: the record's row is gone and the row with the new values
\* is there.
C6_Witness ==
    \E t \in AllTasks :
        LET r == ret[t]
        IN  /\ r.op = "update_record" /\ r.status = "ok" /\ Len(r.assign) = 2
            /\ Cardinality(table[r.cls]) >= 2
            /\ r.record \notin table[r.cls]
            /\ [n \in {"a", "b"} |-> (CHOOSE it \in Range(r.assign) : it[1] = n)[2]]
                  \in table[r.cls]
            /\ r.sql[Len(r.sql)] = Placeholder(1)

C9_NullAndPlaceholders ==
    \A t \in AllTasks :
        LET sent == pc[t] = "sql" /\ call[t].op \in {"fetch", "fetch_row", "delete"}
            built == ret[t].op = "_build_where_clause" /\ ret[t].status = "ok"
            f == IF sent THEN call[t].filter ELSE ret[t].filter
            q == IF sent THEN call[t].query ELSE ret[t].sql
            at == SelectSeq([i \in DOMAIN q |-> i], LAMBDA i : q[i] \in _columns_dict)
            Bare(name) == IF Head(name) = "or_" THEN Tail(name) ELSE name
            Valued(j) == Cardinality({i \in 1..j : f[i][2] # None})
            values == SelectSeq([j \in DOMAIN f |-> f[j][2]], LAMBDA v : v # None)
        IN  (sent \/ built) =>
            /\ Len(at) = Len(f)
            /\ \A j \in DOMAIN f :
                 LET name == Bare(f[j][1])
                     suffix == IF Len(name) = 1 THEN "" ELSE name[Len(name)]
                     next == q[at[j] + 1]
                 IN  /\ Len(name) <= 2 => q[at[j]] = name[1]
                     /\ (f[j][2] = None /\ Len(name) <= 2) =>
                          /\ suffix \in {"", "__eq"} => next = "IS NULL"
                          /\ suffix = "__ne" => next = "IS NOT NULL"
                     /\ f[j][2] = None => suffix \in {"", "__eq", "__ne"}
                     /\ f[j][2] # None =>
                          q[at[j] + 2] \in {Placeholder(Valued(j)), AnyPlaceholder(Valued(j))}
            /\ Params(q) = [i \in 1..Len(values) |-> i]
            /\ sent => call[t].args = values

\* C9 witness: fetch has sent a statement for a filter whose first keyword has a None
\* value and whose second has a value, which is the statement's only argument.
C9_Witness ==
    \E t \in AllTasks :
        /\ pc[t] = "sql" /\ call[t].op = "fetch"
        /\ Len(call[t].filter) = 2
        /\ call[t].filter[1][2] = None /\ call[t].filter[2][2] # None
        /\ call[t].args = <<call[t].filter[2][2]>>

\* ------------------------------------------------------------------ C10
\* C10: a filter whose first keyword starts with or_, or one of whose keywords, less
\* its or_ and its one operator suffix, is not a column of the schema, is never sent
\* to the database: fetch, fetch_row, delete (given a connection or a pool) and the
\* builder raise NameError, which names the column and the schema when the column is
\* unknown.
C10_FilterErrors ==
    \A t \in AllTasks :
        LET Known == {"__eq", "__lt", "__le", "__ne", "__ge", "__gt", "__in", "__like",
                      "__ilike"}
            Bare(name) == IF Head(name) = "or_" THEN Tail(name) ELSE name
            ColumnOf(name) ==
                IF Len(Bare(name)) >= 2 /\ Bare(name)[Len(Bare(name))] \in Known
                THEN SubSeq(Bare(name), 1, Len(Bare(name)) - 1) ELSE Bare(name)
            IsColumn(name) == Len(name) = 1 /\ name[1] \in _columns_dict
            Bad(f) == /\ f # <<>>
                      /\ \/ Head(f[1][1]) = "or_"
                         \/ \E j \in DOMAIN f : ~IsColumn(ColumnOf(f[j][1]))
            r == ret[t]
        IN  /\ pc[t] = "sql" => ~Bad(call[t].filter)
            /\ (r.op \in {"fetch", "fetch_row", "delete", "_build_where_clause"}
                   /\ Bad(r.filter) /\ r.err # "RuntimeError") =>
                 /\ r.status = "err" /\ r.err = "NameError" /\ r.queries = 0
                 /\ r.detail[1] = "Unknown column" =>
                      /\ r.detail[Len(r.detail)] = r.cls
                      /\ \E j \in DOMAIN r.filter :
                            SubSeq(r.detail, 2, Len(r.detail) - 2) = ColumnOf(r.filter[j][1])

\* ------------------------------------------------------------------ C11
\* C11: the WHERE text fetch sends for n valid keywords opens with n-1 parentheses and
\* closes one right after every clause but the first; the i-th clause is joined by OR
\* when its keyword starts with or_ and by AND otherwise; and on every row the database
\* reads the text as the left-to-right fold ((c1 op2 c2) op3 c3) ... of the clauses'
\* values, so the rows returned are the rows on which the fold is true.
C11_LeftFold ==
    \A t \in AllTasks :
        LET sent == pc[t] = "sql" /\ call[t].op = "fetch"
            done == ret[t].op = "fetch" /\ ret[t].status = "ok"
            f == IF sent THEN call[t].filter ELSE ret[t].filter
            n == Len(f)
            q == call[t].query
            w == SubSeq(q, (CHOOSE k \in DOMAIN q : q[k] = "WHERE") + 1, Len(q))
            at(S) == SelectSeq([k \in DOMAIN w |-> k], LAMBDA k : w[k] \in S)
            glue == at({"AND", "OR"})
            close == at({")"})
            Bare(name) == IF Head(name) = "or_" THEN Tail(name) ELSE name
            Clause(j, row) ==
                LET name == Bare(f[j][1])
                    suffix == IF Len(name) = 1 THEN "__eq" ELSE name[2]
                    x == row[name[1]]
                IN  IF f[j][2] = None
                    THEN IF suffix = "__ne" THEN Truth(x # None) ELSE Truth(x = None)
                    ELSE Compare(CASE suffix = "__eq" -> "=" [] suffix = "__ne" -> "<>"
                                   [] suffix = "__lt" -> "<", x, f[j][2])
            Fold(row) ==
                LET fold[j \in 1..n] ==
                        IF j = 1 THEN Clause(1, row)
                        ELSE IF Head(f[j][1]) = "or_" THEN Or3(fold[j - 1], Clause(j, row))
                        ELSE And3(fold[j - 1], Clause(j, row))
                IN  fold[n]
        IN  /\ sent =>
                /\ \A k \in 1..(n - 1) : w[k] = "("
                /\ at({"("}) = [k \in 1..(n - 1) |-> k]
                /\ Len(glue) = n - 1 /\ Len(close) = n - 1
                /\ \A j \in 1..(n - 1) :
                     /\ w[glue[j]] = (IF Head(f[j + 1][1]) = "or_" THEN "OR" ELSE "AND")
                     /\ close[j] > glue[j]
                     /\ close[j] = (IF j < n - 1 THEN glue[j + 1] - 1 ELSE Len(w))
                /\ \A row \in [a : Keys, b : BVals] : Where(q, row, call[t].args) = Fold(row)
            /\ done =>
                {ret[t].rows[k].rec : k \in DOMAIN ret[t].rows}
                    = {row \in table[ret[t].cls] : Fold(row) = "true"}

\* C11 witness: fetch(a=1, or_<c2>, <c3>) has returned without the row a = 1, on which
\* the first clause is true and the third is not: AND binding tighter than OR would
\* have returned it.
C11_Witness ==
    \E t \in AllTasks :
        LET f == ret[t].filter
        IN  /\ ret[t].op = "fetch" /\ ret[t].status = "ok" /\ Len(f) = 3
            /\ f[1] = <<<<"a">>, 1>>
            /\ Head(f[2][1]) = "or_"
            /\ f[3] = <<<<"b", "__ne">>, None>>
            /\ [a |-> 1, b |-> None] \in table[ret[t].cls]
            /\ \A k \in DOMAIN ret[t].rows : ret[t].rows[k].rec.a # 1

\* ------------------------------------------------------------------ C12
\* C12: in every clause the builder returned and every statement fetch sent, a keyword
\* col__in with a value is rendered as the three tokens col = any($m::TYPE[]), TYPE
\* being the SQL type of the column and m the number of valued keywords up to it; the
\* list is the m-th argument, whatever its length, and is the only use of $m; and a
\* fetch by one in-clause returns the rows whose column is an element of the list.
C12_InRendersAny ==
    \A t \in AllTasks :
        LET sent == pc[t] = "sql" /\ call[t].op = "fetch"
            built == ret[t].op = "_build_where_clause" /\ ret[t].status = "ok"
            done == ret[t].op = "fetch" /\ ret[t].status = "ok"
            f == IF sent THEN call[t].filter ELSE ret[t].filter
            c == IF sent THEN call[t].cls ELSE ret[t].cls
            q == IF sent THEN call[t].query ELSE ret[t].sql
            at == SelectSeq([i \in DOMAIN q |-> i], LAMBDA i : q[i] \in {"a", "b"})
            Bare(name) == IF Head(name) = "or_" THEN Tail(name) ELSE name
            Valued(j) == Cardinality({i \in 1..j : f[i][2] # None})
            In(j) == Len(Bare(f[j][1])) = 2 /\ Bare(f[j][1])[2] = "__in" /\ f[j][2] # None
            Type(col) == IF c = "W" /\ col = "b" THEN "TEXT" ELSE "INTEGER"
            Text(j) == "any($" \o ToString(Valued(j)) \o "::" \o Type(Bare(f[j][1])[1]) \o "[])"
        IN  /\ (sent \/ built) =>
                /\ Len(at) = Len(f)
                /\ \A k \in DOMAIN q : q[k] \notin {"IN", "_IN"}
                /\ \A j \in DOMAIN f : In(j) =>
                     /\ SubSeq(q, at[j], at[j] + 2) = <<Bare(f[j][1])[1], "=", Text(j)>>
                     /\ at[j] + 2 < Len(q) => q[at[j] + 3] \in {")", "AND", "OR"}
                     /\ Cardinality({k \in DOMAIN Params(q) : Params(q)[k] = Valued(j)}) = 1
                     /\ sent => call[t].args[Valued(j)] = f[j][2]
                /\ sent => Len(call[t].args) = Valued(Len(f))
            /\ (done /\ Len(f) = 1 /\ In(1) /\ IsList(f[1][2])) =>
                {ret[t].rows[k].rec : k \in DOMAIN ret[t].rows}
                    = {row \in table[c] : /\ row[Bare(f[1][1])[1]] # None
                                          /\ row[Bare(f[1][1])[1]] \in Members(f[1][2])}

\* C12 witness: fetch on W has sent a statement for (a=1, b__in=<list of 2>): the list
\* is bound, as one argument, to any($2::TEXT[]).
C12_Witness ==
    \E t \in AllTasks :
        /\ pc[t] = "sql" /\ call[t].op = "fetch" /\ call[t].cls = "W"
        /\ call[t].filter = <<<<<<"a">>, 1>>, <<<<"b", "__in">>, List({1, 2})>>>>
        /\ call[t].query[Len(call[t].query) - 1] = "any($2::TEXT[])"
        /\ call[t].args = <<1, List({1, 2})>>

C14_InsertText ==
    \A t \in AllTasks :
        LET cl == call[t]
            o == cl.options
            values == IF cl.op = "insert" THEN cl.assign ELSE o.records[1]
            n == Len(values)
            Sep(xs) == [k \in 1..(2 * Len(xs) - 1) |-> IF k % 2 = 1 THEN xs[(k + 1) \div 2] ELSE ","]
            pk == IF cl.cls = "V" THEN <<"a", "b">> ELSE IF cl.cls = "N" THEN <<>> ELSE <<"a">>
            head == <<"INSERT INTO", cl.cls, "(">> \o Sep([k \in 1..n |-> values[k][1]])
                    \o <<") VALUES (">> \o Sep([k \in 1..n |-> "$" \o ToString(k)]) \o <<")">>
            conflict == <<"ON CONFLICT (">> \o Sep(pk) \o <<") DO UPDATE SET">>
                        \o Sep([k \in DOMAIN o.update_on_conflict |->
                                  o.update_on_conflict[k] \o " = EXCLUDED." \o o.update_on_conflict[k]])
            text == IF o.update_on_conflict # <<>> THEN head \o conflict ELSE head
        IN  (pc[t] = "sql" /\ cl.op \in {"insert", "insert_many"} /\ n >= 1) =>
                /\ Len(cl.query) >= Len(text) /\ SubSeq(cl.query, 1, Len(text)) = text
                /\ cl.op = "insert" => cl.args = [k \in 1..n |-> values[k][2]]
                /\ cl.op = "insert_many" =>
                     cl.args = [j \in DOMAIN o.records |->
                                  [k \in DOMAIN o.records[j] |-> o.records[j][k][2]]]

\* ------------------------------------------------------------------ C15
\* C15: migrate(columns) sends DROP COLUMN for exactly the tracked columns whose names
\* are not in the target list, then ADD COLUMN for exactly the target columns whose
\* names are not tracked, one ALTER TABLE statement each and nothing else: the
\* statements of every migrate call are those drops, in the order of the tracked
\* columns, followed by those adds, in the order of the target list.
C15_MigrateStatements ==
    ddl.op = "migrate" =>
        LET tracked == Names(ddl.tracked)
            target == Names(ddl.columns)
            drops == SelectSeq(tracked, LAMBDA n : n \notin Range(target))
            adds == SelectSeq(target, LAMBDA n : n \notin Range(tracked))
        IN  ddl.sent =
                [i \in DOMAIN drops |-> <<"ALTER TABLE", "s", "DROP COLUMN", drops[i]>>]
                \o [i \in DOMAIN adds |->
                      <<"ALTER TABLE", "s", "ADD COLUMN", adds[i] \o " INTEGER">>]

\* ------------------------------------------------------------------ C16
\* C16: migrate_to a table of another name, with the default migration or with a
\* caller's function, creates the target if create_new_table is set, then fetches the
\* rows of the source, then bulk-inserts into the target, then drops the source if
\* drop_table is set: the statements of the call are, in this order, the CREATE (after
\* its CREATE SCHEMA) if requested, the SELECT, the INSERT, and the DROP if requested.
C16_MigrateToOrder ==
    (ddl.op = "migrate_to" /\ _name(ddl.cls) # _name(ddl.target)) =>
        [i \in DOMAIN ddl.sent |-> ddl.sent[i][1]] =
            (IF "create_new_table" \in ddl.flags THEN <<"CREATE SCHEMA", "CREATE TABLE">>
             ELSE <<>>)
            \o <<"SELECT * FROM", "INSERT INTO">>
            \o (IF "drop_table" \in ddl.flags THEN <<"DROP">> ELSE <<>>)

\* ------------------------------------------------------------------ C17
\* The CREATE TABLE statements a call sent.
CreateTexts == {ddl.sent[i] : i \in {j \in DOMAIN ddl.sent : ddl.sent[j][1] = "CREATE TABLE"}}

\* C17: the CREATE TABLE text of a declared table has one PRIMARY KEY ( ... ) clause,
\* at its end, that lists exactly the columns flagged primary_key in declaration
\* order; when no column is flagged the text has no PRIMARY KEY clause and no comma
\* is left before a closing parenthesis or at the end.
C17_PrimaryKeyClause ==
    \A q \in CreateTexts :
        LET flagged == Names(SelectSeq(declared["S"].columns, IsPrimaryKey))
            p == Index(q, "PRIMARY KEY (")
        IN  IF flagged = <<>>
            THEN /\ p = 0
                 /\ q[Len(q)] # ","
                 /\ \A k \in 1..(Len(q) - 1) : q[k] = "," => q[k + 1] # ")"
            ELSE /\ p # 0
                 /\ \A k \in DOMAIN q : q[k] = "PRIMARY KEY (" => k = p
                 /\ SubSeq(q, p + 1, Len(q)) =
                        SubSeq(Commas(flagged), 1, 2 * Len(flagged) - 1) \o <<")", ")">>

\* C17 witness: a table declared b, a with both flagged (and one declared without a
\* flagged column) has been created from its text.
C17_Witness ==
    /\ ddl.op = "create" /\ ddl.err = "" /\ live["s"].exists
    /\ CreateTexts # {}
    /\ \/ Names(SelectSeq(declared["S"].columns, IsPrimaryKey)) = <<"b", "a">>
       \/ /\ SelectSeq(declared["S"].columns, IsPrimaryKey) = <<>>
          /\ SelectSeq(declared["S"].columns, IsUnique) # <<>>
          /\ Len(declared["S"].columns) = 2

\* ------------------------------------------------------------------ C18
\* C18: the columns of a Join are all columns of the left source in its order, then
\* the columns of the right source whose names are not on the left (a, b joined with
\* a, c gives a, b, c), and the select takes every column whose name is on the left,
\* shared names included, from the left source's alias and the others from the right
\* source's alias.
C18_LeftBiasedUnion ==
    ddl.op \in JoinMethods =>
        LET a == ddl.cls
            b == ddl.target
            made == ddl.columns
            alias_a == IF a.join THEN a._alias ELSE ddl.generated[1]
            alias_b == IF b.join THEN b._alias ELSE ddl.generated[2]
            expected == a._columns
                          \o SelectSeq(b._columns, LAMBDA n : n \notin Range(a._columns))
        IN  /\ made._columns = expected
            /\ made._name[1] = "( SELECT"
            /\ made._name[4 * Len(expected) + 1] = "FROM"
            /\ \A i \in DOMAIN expected :
                  SubSeq(made._name, 4 * i - 2, 4 * i) =
                      <<(IF expected[i] \in Range(a._columns) THEN alias_a ELSE alias_b)
                            \o "." \o expected[i],
                        "AS", expected[i]>>

\* C18 witness: S with columns a, b has been joined with T with columns a, c under
\* two different aliases.
C18_Witness ==
    /\ ddl.op \in JoinMethods /\ ddl.columns.id = "J1"
    /\ ddl.cls._columns = <<"a", "b">> /\ ddl.target._columns = <<"a", "c">>
    /\ ddl.columns._columns = <<"a", "b", "c">>
    /\ ddl.generated = <<"p", "q">>
    /\ SubSeq(ddl.columns._name, 1, 13) =
          <<"( SELECT", "p.a", "AS", "a", ",", "p.b", "AS", "b", ",", "q.c", "AS", "c", "FROM">>

\* ------------------------------------------------------------------ C19
\* The join keyword each method stands for.
JoinKeyword ==
    [inner_join |-> "INNER", left_join |-> "LEFT", right_join |-> "RIGHT",
     full_outer_join |-> "FULL OUTER"]

\* C19: inner_join, left_join, right_join and full_outer_join each return a Join whose
\* select joins the two sources with INNER JOIN, LEFT JOIN, RIGHT JOIN and FULL OUTER
\* JOIN respectively: the keyword follows the left source and its alias.
C19_JoinKeywords ==
    ddl.op \in JoinMethods =>
        LET a == ddl.cls
            made == ddl.columns
            at == 4 * Len(made._columns) + 1 + Len(a._name) + (IF a.join THEN 0 ELSE 2) + 1
        IN  /\ made.join
            /\ made._type = JoinKeyword[ddl.op]
            /\ SubSeq(made._name, at, at + 1) = <<JoinKeyword[ddl.op], "JOIN">>

\* ------------------------------------------------------------------ C20
\* The statements of a create call that touch the table, and the columns a kind of
\* ALTER TABLE statement of the call names, in order.
TableStatements ==
    SelectSeq(ddl.sent, LAMBDA q : q[1] \in {"CREATE TABLE", "ALTER TABLE", "DROP"})

Altered(kind) ==
    LET qs == SelectSeq(ddl.sent, LAMBDA q : q[1] = "ALTER TABLE" /\ q[3] = kind)
    IN  [i \in DOMAIN qs |-> IF kind = "ADD COLUMN" THEN Defined(qs[i][4]) ELSE qs[i][4]]

\* C20: a create with automatic_migrations on a table that exists sends no CREATE
\* TABLE: it sends one DROP COLUMN for each live column that is not declared, one ADD
\* COLUMN for each declared column that is not live and nothing else to the table, so
\* that the table ends with the declared columns and its rows, whose shared columns
\* keep their values. When the table does not exist or automatic_migrations is not
\* set, the call sends the plain CREATE TABLE. (The schema public exists: a call with
\* create_schema and without if_not_exists fails on its CREATE SCHEMA and is left
\* out.)
C20_AutomaticMigration ==
    (/\ ddl.op = "create"
     /\ ~("create_schema" \in ddl.flags /\ "if_not_exists" \notin ddl.flags)) =>
        LET names == Names(declared["S"].columns)
            was == ddl.before
            now == live["s"]
        IN  IF "automatic_migrations" \in ddl.flags /\ was.exists
            THEN /\ \A i \in DOMAIN TableStatements : TableStatements[i][1] = "ALTER TABLE"
                 /\ Range(Altered("DROP COLUMN")) = Range(was.columns) \ Range(names)
                 /\ Altered("ADD COLUMN") =
                        SelectSeq(names, LAMBDA n : n \notin Range(was.columns))
                 /\ Len(TableStatements) =
                        Cardinality(Range(was.columns) \ Range(names))
                          + Cardinality(Range(names) \ Range(was.columns))
                 /\ ddl.err = ""
                 /\ now.exists /\ Range(now.columns) = Range(names)
                 /\ Len(now.rows) = Len(was.rows)
                 /\ \A i \in DOMAIN was.rows :
                       \A n \in Range(names) \cap Range(was.columns) :
                           now.rows[i][n] = was.rows[i][n]
            ELSE TableStatements = <<_query_create("S", "if_not_exists" \in ddl.flags)>>

\* ------------------------------------------------------------------ C21
\* The names the WHERE keywords reserve: the prefix or_ and the suffix __key of every
\* operator key of consts.OPERATORS.
OperatorSuffixes ==
    {<<"_", "_", "e", "q">>, <<"_", "_", "l", "t">>, <<"_", "_", "l", "e">>,
     <<"_", "_", "n", "e">>, <<"_", "_", "g", "e">>, <<"_", "_", "g", "t">>,
     <<"_", "_", "i", "n">>, <<"_", "_", "l", "i", "k", "e">>,
     <<"_", "_", "i", "l", "i", "k", "e">>}

ReservedName(name) ==
    StartsWith(name, <<"o", "r", "_">>) \/ \E suffix \in OperatorSuffixes : EndsWith(name, suffix)

\* C21: a class declared with a field whose name starts with or_ or ends in an
\* operator suffix is rejected by the scan, so a class that was scanned without an
\* error has no column of such a name.
C21_ReservedNamesRejected ==
    (ddl.op \in {"__init_subclass__", "FetchableMeta.__new__"} /\ ddl.err = "") =>
        \A i \in DOMAIN _columns["S"] : ~ReservedName(_columns["S"][i].name)

\* ------------------------------------------------------------------ C22
\* The resolved type of a bound column: its type, and whether it is an array of it.
Resolved(column) == <<column.type, column.is_array>>

\* C22: binding a column that references a column of another resolved type fails,
\* unless the referenced column is an auto-increment integer key: a column that was
\* bound without an error and references a column has that column's resolved type,
\* or references an auto-increment integer column.
C22_ReferenceTypesMatch ==
    (ddl.op \in {"_setup_column", "_update"} /\ ddl.err = "") =>
        \A i \in DOMAIN _columns["S"] :
            LET column == _columns["S"][i]
            IN  column.references # <<>> =>
                    \/ Resolved(column) = Resolved(column.references[1])
                    \/ /\ column.references[1].auto_increment
                       /\ _python[column.references[1].type] = "int"

\* ------------------------------------------------------------------ C23
\* C23: CustomType.create suppresses the database's error exactly when it is the
\* duplicate-object error and if_not_exists was requested, and then, as after a
\* create without an error, the type has its codec and is in the registry; any other
\* error, and the duplicate-object error without if_not_exists, is raised to the
\* caller and the registry is as before. After a drop that did not raise, the type
\* is not in the registry.
C23_CreateSuppressesDuplicate ==
    /\ ddl.op = "CustomType.create" =>
          /\ (ddl.raised # "" /\ ddl.err = "") <=>
                (ddl.raised = "DuplicateObjectError" /\ "if_not_exists" \in ddl.flags)
          /\ ddl.err \in {"", ddl.raised}
          /\ ddl.err = "" => ddl.cls \in CUSTOM_TYPES /\ ddl.cls \in codecs
          /\ ddl.err # "" => CUSTOM_TYPES = ddl.before
    /\ (ddl.op = "CustomType.drop" /\ ddl.err = "") => ddl.cls \notin CUSTOM_TYPES

\* A create with if_not_exists of a type that exists and is not registered: the
\* duplicate-object error is suppressed and the type is registered.
C23_Witness ==
    /\ ddl.op = "CustomType.create"
    /\ ddl.raised = "DuplicateObjectError"
    /\ "if_not_exists" \in ddl.flags
    /\ ddl.err = ""
    /\ ddl.cls \notin ddl.before
    /\ ddl.cls \in CUSTOM_TYPES

\* ------------------------------------------------------------------ C24
\* What the pool did for the call cl of task t that is in progress (done FALSE) or
\* has ended (done TRUE): a connection that was given is used as is and nothing is
\* acquired or released; without one, with a pool, one connection is acquired before
\* the function is entered, held by the task while it runs, and released once when
\* the call has ended.
PoolUse(t, cl, done) ==
    /\ cl.connection # "None" =>
          /\ cl.acquired = 0 /\ cl.released = 0
          /\ cl.ran => cl.using = cl.connection
    /\ (cl.connection = "None" /\ _base_pool # "None") =>
          /\ cl.acquired = (IF cl.ran THEN 1 ELSE 0)
          /\ cl.released = (IF done /\ cl.ran THEN 1 ELSE 0)
          /\ (cl.ran /\ ~done) => _holders[cl.using] = t
    /\ (cl.connection = "None" /\ _base_pool = "None") =>
          ~cl.ran /\ cl.acquired = 0 /\ cl.released = 0

\* A task that is in no call has no connection of the pool.
IdleHoldsNone ==
    \A t \in AllTasks : pc[t] = "idle" => \A h \in DOMAIN _holders : _holders[h] # t

TrackedIsLive(columns, T, c) ==
    /\ Range(Names(columns)) = Range(T.columns)
    /\ \A i \in DOMAIN columns : columns[i].table = c

\* C25: a successful add_column, drop_column or migrate call on a table whose
\* tracked columns are the real table's columns, all owned by it, leaves it so: an
\* added column is tracked and owned, a dropped column is neither.
C25_TrackedMatchesTable ==
    [][(/\ TrackedIsLive(_columns["S"], live["s"], "S")
        /\ ddl'.op \in {"add_column", "drop_column", "migrate"}
        /\ ddl'.err = "")
       => TrackedIsLive(_columns'["S"], live'["s"], "S")]_vars

\* ------------------------------------------------------------------ C29
\* C29: when the ALTER TABLE statement of add_column or drop_column fails, or a
\* migrate in a transaction fails after its first statement, the tracked columns
\* and their ownership are what they were before the call, and so is the table.
C29_FailureLeavesTracked ==
    [][(/\ ddl'.err # ""
        /\ ddl'.sent # <<>>
        /\ \/ ddl'.op \in {"add_column", "drop_column"}
           \/ ddl'.op = "migrate" /\ "with_transaction" \in ddl'.flags)
       => (_columns' = _columns /\ live' = live)]_vars

\* ------------------------------------------------------------------ C26
\* C26: a fetch_where on a CachedTable never returns without its one statement, the
\* base query; when it ends, the rows it returns are the rows the database selects,
\* every one of them is the cache's entry under its own primary-key tuple, whatever
\* the cache held there, and an unbounded cache has besides exactly the entries it
\* had under the other keys.
C26_FetchWhereStoresRows ==
    [][\A t \in AllTasks :
         /\ (ret'[t].op = "fetch_where" /\ ret'[t].cls \in CachedClasses
               /\ ret'[t].status = "ok")
            => (ret'[t].queries = 1 /\ ret'[t].src = "db")
         /\ (call[t].op = "fetch_where" /\ call[t].cls \in CachedClasses
               /\ pc[t] # "idle" /\ pc'[t] = "idle")
            => LET c == call[t].cls
                   d == cache[c]
                   d2 == cache'[c]
                   rows == ret'[t].rows
                   keys == {_get_primary_key_values(c, rows[i].rec) : i \in DOMAIN rows}
               IN  /\ pc[t] = "db"
                   /\ ret'[t].status = "ok"
                   /\ {rows[i].rec : i \in DOMAIN rows} = Select(table[c], call[t].kwargs)
                   /\ \A i \in DOMAIN d2 :
                         IF d2[i].key \in keys
                         THEN \E j \in DOMAIN rows :
                                 /\ d2[i].key = _get_primary_key_values(c, rows[j].rec)
                                 /\ d2[i].rec = rows[j].rec
                         ELSE d2[i] \in Range(d)
                   /\ max_size[c] = None =>
                         /\ CacheKeys(d2) = CacheKeys(d) \cup keys
                         /\ \A i \in DOMAIN d : d[i].key \notin keys => d[i] \in Range(d2)]_vars

\* C26 witness: a fetch_where has returned two rows from the database and the cache
\* holds both, and nothing else: they are the objects the caller was handed.
C26_Witness ==
    /\ ret["t1"].op = "fetch_where"
    /\ ret["t1"].status = "ok"
    /\ ret["t1"].queries = 1
    /\ Len(ret["t1"].rows) = 2
    /\ \A i \in DOMAIN ret["t1"].rows : ret["t1"].rows[i].shared
    /\ {cache["B"][i].rec : i \in DOMAIN cache["B"]} = table["B"]
    /\ Cardinality(table["B"]) = 2
    /\ max_size["B"] = None

\* ------------------------------------------------------------------ C27
\* The SQL type name of the element type of an annotation: the named class's, or the
\* name a column annotated with the Python type alone resolves to.
ElementName(annotation) ==
    IF annotation.named THEN SQLTypeConfig[ConfigOf(annotation.type)].sql_type
    ELSE _from_type(FALSE, annotation.type).sql_type

\* C27: every column annotated as a list of T, T a Python type or a named SQL type,
\* is set up with the SQL type name of T followed by [] (a list of SQLType.Double
\* with DOUBLE PRECISION[]).
C27_ListResolvesToElementArray ==
    \A i \in DOMAIN declared["S"].columns :
        (declared["S"].columns[i].is_array
           /\ (i <= Len(_columns["S"]) \/ (i = Len(_columns["S"]) + 1 /\ ddl.err # "")))
        => /\ i <= Len(_columns["S"])
           /\ _columns["S"][i]._sql_type = ElementName(declared["S"].columns[i]) \o "[]"

\* ------------------------------------------------------------------ C28
\* The text q has one UNIQUE ( ... ) clause that lists the names grouped, or none
\* when there is no name to list.
UniqueClause(q, grouped) ==
    LET u == Index(q, "UNIQUE (")
    IN  IF grouped = <<>> THEN u = 0
        ELSE /\ u # 0
             /\ \A k \in DOMAIN q : q[k] = "UNIQUE (" => k = u
             /\ Len(q) >= u + 2 * Len(grouped)
             /\ SubSeq(q, u + 1, u + 2 * Len(grouped)) =
                    SubSeq(Commas(grouped), 1, 2 * Len(grouped) - 1) \o <<")">>

\* C28: the CREATE TABLE text has a single UNIQUE ( ... ) clause that groups exactly
\* the columns flagged unique that are not primary-key columns, in declaration
\* order, and no UNIQUE clause when there is no such column.
C28_UniqueNonKeyClause ==
    \A q \in CreateTexts :
        UniqueClause(q, Names(SelectSeq(declared["S"].columns,
                                        LAMBDA column : column.unique /\ ~column.primary_key)))

\* C28 as amended: the clause groups exactly the columns flagged unique, primary-key
\* columns among them, in declaration order; there is none when no column is
\* flagged unique.
C28_UniqueClause ==
    \A q \in CreateTexts :
        UniqueClause(q, Names(SelectSeq(declared["S"].columns, IsUnique)))

\* C28 witness: a table declared with two unique columns, the second of them a
\* primary key, has been created from its text.
C28_Witness ==
    /\ ddl.op = "create" /\ ddl.err = "" /\ live["s"].exists
    /\ CreateTexts # {}
    /\ Len(declared["S"].columns) = 2
    /\ \A i \in 1..2 : declared["S"].columns[i].unique
    /\ ~declared["S"].columns[1].primary_key
    /\ declared["S"].columns[2].primary_key

\* ------------------------------------------------------------------ C30
\* A task waits for a lock only when another has it, a call takes the lock at most
\* once, and a task that is in no call has no lock.
LockDiscipline ==
    \A t \in AllTasks :
        /\ pc[t] = "wait" => lock[LockOf(call[t].cls)] # t
        /\ call[t].took <= 1
        /\ ret[t].took <= 1
        /\ pc[t] = "idle" => \A c \in Classes : lock[c] # t

\* C30: no cached operation waits for the lock of its class while it holds it, each
\* call takes the lock at most once, and the lock is released when the call ends,
\* also when the database call or the cache update raises; so every call of
\* concurrent tasks on one class completes, when every database call is answered.
C30_CachedCallsComplete ==
    /\ []LockDiscipline
    /\ \A t \in AllTasks : (pc[t] # "idle") ~> (pc[t] = "idle")

\* C30 witness: an insert of t1 has raised in its cache update, after taking the lock
\* once, and t2 holds the lock over the database call of its fetch_value_where.
C30_Witness ==
    /\ ret["t1"].op = "insert"
    /\ ret["t1"].status = "err"
    /\ ret["t1"].err = "TypeError"
    /\ ret["t1"].took = 1
    /\ pc["t1"] = "idle"
    /\ lock["A"] = "t2"
    /\ pc["t2"] = "db"
    /\ call["t2"].op = "fetch_value_where"

====
